---- MODULE Spec2Model ----
(***************************************************************************)
(* StickUp: the Manager (discovery, polling, labeled state, injected       *)
(* raw-input queue, rescan, snapshot), the Windows HIDP report parser and  *)
(* the XInput slot device, as state machines.                              *)
(*                                                                         *)
(* Conventions.                                                            *)
(*  - HashMap<K, V> is a function with a finite domain; Vec<T> a sequence. *)
(*  - Option::None is the string NoName / the record NoPacket.             *)
(*  - An f32 axis value v is the integer 120 * v (AxisScale), which is     *)
(*    exact for every value the enumerated inputs produce.                 *)
(*  - A Vec collected from a HashSet (RescanReport.removed) has no         *)
(*    specified order and is kept as a set.                                *)
(***************************************************************************)
EXTENDS Integers, Sequences, FiniteSets, TLC

VARIABLES
    \* ---- Manager (src/src/manager.rs:122-133) ----
    devices,    \* Vec<Box<dyn Device>>
    labels,     \* HashMap<String, LabelMaps>
    states,     \* HashMap<String, DeviceState>
    infos,      \* Vec<ManagedInfo>
    descs,      \* HashMap<String, Vec<ChannelDesc>>
    injected,   \* Vec<(String, InputKind)>
    \* ---- what the host observed of the last Manager call ----
    op,         \* name of the last operation
    arg,        \* its input (poll results of the devices, probe result, packet)
    ret,        \* its return value
    pre,        \* the manager as it was when the call started
    snap,       \* the last Snapshot the host took and still holds
    mgrLog,     \* every (id, event) pair the logged polls have returned, in order
    \* ---- one WinHidpParser (src/src/backends/windows/hidp_parser.rs:97-123) ----
    hid,        \* parser under test: fields, index maps and last-frame state
    hidLog,     \* the parse calls made so far: report id, report, events pushed
    hidQueue,   \* input reports the OS holds for the HidInputDevice, oldest first
    \* ---- one XInputDevice (src/src/backends/windows/xinput_devices.rs:65-86) ----
    xi,         \* device under test
    xiLog       \* the polls made so far: XInputGetState result and events returned

mgrVars == <<devices, labels, states, infos, descs, injected>>
obsVars == <<op, arg, ret, pre, snap, mgrLog>>
hidVars == <<hid, hidLog, hidQueue>>
xiVars  == <<xi, xiLog>>
vars    == <<devices, labels, states, infos, descs, injected,
             op, arg, ret, pre, snap, mgrLog, hid, hidLog, hidQueue, xi, xiLog>>

(***************************************************************************)
(* Bounds of the model.                                                    *)
(***************************************************************************)
\* Most events one Device::poll returns in the enumerated inputs.
MaxPoll == 2
\* Most events waiting in the injected queue (the Vec itself is unbounded).
MaxInjected == 2
\* Most parse calls and XInput polls, in total, in one behaviour.
MaxReports == 5
\* Most events one Device::poll returns in the snapshot specification.
SnapMaxPoll == 1
\* Raw-input specification: longest injected queue, and longest poll log kept.
MaxRawQueue == 3
MaxLog == 3

(***************************************************************************)
(* Generic map and sequence helpers.                                       *)
(***************************************************************************)
EmptyMap == [x \in {} |-> 0]

\* HashMap::insert
Put(m, k, v) == [x \in (DOMAIN m) \cup {k} |-> IF x = k THEN v ELSE m[x]]

\* HashMap::entry(k).or_insert(v)
OrInsert(m, k, v) == IF k \in DOMAIN m THEN m ELSE Put(m, k, v)

\* HashMap::get(k).cloned().unwrap_or_else(|| d)
GetOr(m, k, d) == IF k \in DOMAIN m THEN m[k] ELSE d

Abs(x) == IF x < 0 THEN -x ELSE x

Max(a, b) == IF a >= b THEN a ELSE b

Range(s) == {s[i] : i \in DOMAIN s}

\* Sequences over S of length at most n.
RECURSIVE SeqsUpTo(_, _)
SeqsUpTo(S, n) ==
    IF n = 0 THEN {<<>>}
    ELSE LET shorter == SeqsUpTo(S, n - 1)
         IN  shorter \cup {Append(s, e) : s \in {t \in shorter : Len(t) = n - 1}, e \in S}

\* Every way to pick one element of each set of a sequence of sets.
RECURSIVE Choices(_)
Choices(sets) ==
    IF sets = <<>> THEN {<<>>}
    ELSE {<<h>> \o t : h \in Head(sets), t \in Choices(Tail(sets))}

(***************************************************************************)
(* Events and channel descriptions (src/src/event.rs).                     *)
(***************************************************************************)
NoName == "<None>"
AxisScale == 120

AxisMoved(a, v)   == [t |-> "AxisMoved", axis |-> a, value |-> v]
ButtonPressed(b)  == [t |-> "ButtonPressed", button |-> b]
ButtonReleased(b) == [t |-> "ButtonReleased", button |-> b]
HatChanged(h, v)  == [t |-> "HatChanged", hat |-> h, value |-> v]

ChannelDesc(kind, idx, name, lo, hi) ==
    [kind |-> kind, idx |-> idx, name |-> name, logical_min |-> lo, logical_max |-> hi]

DeviceStateDefault == [axes |-> EmptyMap, buttons |-> EmptyMap, hats |-> EmptyMap]
LabelMapsDefault   == [axes |-> EmptyMap, buttons |-> EmptyMap, hats |-> EmptyMap]

ManagedInfo(id, name, bus) == [id |-> id, name |-> name, bus |-> bus]

(***************************************************************************)
(* Manager helpers (src/src/manager.rs).                                   *)
(***************************************************************************)
\* fn default_name: format!("axis{idx}") / "btn{idx}" / "hat{idx}"
default_name(kind, idx) ==
    CASE kind = "Axis"   -> "axis" \o ToString(idx)
      [] kind = "Button" -> "btn" \o ToString(idx)
      [] kind = "Hat"    -> "hat" \o ToString(idx)

\* fn build_labels: one pass over the descriptors, later entries overwrite.
RECURSIVE build_labels_loop(_, _, _)
build_labels_loop(ds, i, lm) ==
    IF i > Len(ds) THEN lm
    ELSE LET d    == ds[i]
             name == IF d.name # NoName THEN d.name ELSE default_name(d.kind, d.idx)
             lm2  == CASE d.kind = "Axis"   -> [lm EXCEPT !.axes    = Put(@, d.idx, name)]
                       [] d.kind = "Button" -> [lm EXCEPT !.buttons = Put(@, d.idx, name)]
                       [] d.kind = "Hat"    -> [lm EXCEPT !.hats    = Put(@, d.idx, name)]
         IN  build_labels_loop(ds, i + 1, lm2)

build_labels(ds) == build_labels_loop(ds, 1, LabelMapsDefault)

\* Mutant of seed_neutral_value: buttons seeded pressed.
seed_neutral_value_pressed(kind) ==
    CASE kind = "Axis" -> 0 [] kind = "Button" -> TRUE [] kind = "Hat" -> -1

\* The neutral value seed_neutral inserts: axes 0.0, buttons false, hats -1.
seed_neutral_value(kind) ==
    CASE kind = "Axis" -> 0 [] kind = "Button" -> FALSE [] kind = "Hat" -> -1

\* Mutant of seed_neutral_label: the label map is ignored.
seed_neutral_label_default(lbls, d) == default_name(d.kind, d.idx)

\* The label seed_neutral uses for a descriptor: the label map's entry for the
\* index, or the default name.
seed_neutral_label(lbls, d) ==
    CASE d.kind = "Axis"   -> GetOr(lbls.axes,    d.idx, default_name("Axis", d.idx))
      [] d.kind = "Button" -> GetOr(lbls.buttons, d.idx, default_name("Button", d.idx))
      [] d.kind = "Hat"    -> GetOr(lbls.hats,    d.idx, default_name("Hat", d.idx))

\* Mutant of seed_entry: insert instead of entry().or_insert().
seed_entry_overwrite(m, label, v) == Put(m, label, v)

\* state.<kind>.entry(label).or_insert(neutral)
seed_entry(m, label, v) == OrInsert(m, label, v)

\* fn seed_neutral
RECURSIVE seed_neutral_loop(_, _, _, _)
seed_neutral_loop(state, lbls, ds, i) ==
    IF i > Len(ds) THEN state
    ELSE LET d     == ds[i]
             label == seed_neutral_label(lbls, d)
             v     == seed_neutral_value(d.kind)
             st2   == CASE d.kind = "Axis"   -> [state EXCEPT !.axes    = seed_entry(@, label, v)]
                        [] d.kind = "Button" -> [state EXCEPT !.buttons = seed_entry(@, label, v)]
                        [] d.kind = "Hat"    -> [state EXCEPT !.hats    = seed_entry(@, label, v)]
         IN  seed_neutral_loop(st2, lbls, ds, i + 1)

seed_neutral(state, lbls, ds) == seed_neutral_loop(state, lbls, ds, 1)

\* The Manager as one value.
Mgr(dv, lb, st, inf, ds, inj) ==
    [devices |-> dv, labels |-> lb, states |-> st, infos |-> inf, descs |-> ds,
     injected |-> inj]

Self == Mgr(devices, labels, states, infos, descs, injected)

\* Manager::from_devices: the per-device loop.
RECURSIVE from_devices_loop(_, _, _)
from_devices_loop(devs, i, m) ==
    IF i > Len(devs) THEN m
    ELSE LET d       == devs[i]
             id      == d.id
             desc    == d.desc
             lm      == build_labels(desc)
             labels2 == Put(m.labels, id, lm)
             descs2  == Put(m.descs, id, desc)
             st      == seed_neutral(DeviceStateDefault, labels2[id], desc)
             states2 == Put(m.states, id, st)
             infos2  == Append(m.infos, ManagedInfo(id, d.name, d.bus))
         IN  from_devices_loop(devs, i + 1,
                 Mgr(m.devices, labels2, states2, infos2, descs2, m.injected))

from_devices(devs) ==
    from_devices_loop(devs, 1, Mgr(devs, EmptyMap, EmptyMap, <<>>, EmptyMap, <<>>))

\* Manager::discover: the same loop over the probe's result.
RECURSIVE discover_loop(_, _, _)
discover_loop(devs, i, m) ==
    IF i > Len(devs) THEN m
    ELSE LET d       == devs[i]
             id      == d.id
             desc    == d.desc
             lm      == build_labels(desc)
             labels2 == Put(m.labels, id, lm)
             descs2  == Put(m.descs, id, desc)
             st      == seed_neutral(DeviceStateDefault, labels2[id], desc)
             states2 == Put(m.states, id, st)
             infos2  == Append(m.infos, ManagedInfo(id, d.name, d.bus))
         IN  discover_loop(devs, i + 1,
                 Mgr(m.devices, labels2, states2, infos2, descs2, m.injected))

discover(probed) ==
    discover_loop(probed, 1, Mgr(probed, EmptyMap, EmptyMap, <<>>, EmptyMap, <<>>))

\* Mutant of apply_event_entry: no state entry is created.
apply_event_entry_none(sts, id) == sts

\* let st = self.states.entry(id.to_string()).or_default();
apply_event_entry(sts, id) == OrInsert(sts, id, DeviceStateDefault)

\* Mutant of apply_event: events of unlabeled devices are written under default names.
apply_event_unlabeled(m, id, ev) ==
    LET sts == OrInsert(m.states, id, DeviceStateDefault)
        lbl == GetOr(m.labels, id, LabelMapsDefault)
    IN  [m EXCEPT !.states =
            CASE ev.t = "AxisMoved" ->
                   [sts EXCEPT ![id].axes =
                       Put(@, GetOr(lbl.axes, ev.axis, default_name("Axis", ev.axis)), ev.value)]
              [] ev.t = "ButtonPressed" ->
                   [sts EXCEPT ![id].buttons =
                       Put(@, GetOr(lbl.buttons, ev.button, default_name("Button", ev.button)), TRUE)]
              [] ev.t = "ButtonReleased" ->
                   [sts EXCEPT ![id].buttons =
                       Put(@, GetOr(lbl.buttons, ev.button, default_name("Button", ev.button)), FALSE)]
              [] ev.t = "HatChanged" ->
                   [sts EXCEPT ![id].hats =
                       Put(@, GetOr(lbl.hats, ev.hat, default_name("Hat", ev.hat)), ev.value)]]

\* fn Manager::apply_event
apply_event(m, id, ev) ==
    LET sts == apply_event_entry(m.states, id)
    IN  IF id \notin DOMAIN m.labels
        THEN [m EXCEPT !.states = sts]
        ELSE LET lbl == m.labels[id]
             IN  [m EXCEPT !.states =
                    CASE ev.t = "AxisMoved" ->
                           [sts EXCEPT ![id].axes =
                               Put(@, GetOr(lbl.axes, ev.axis, default_name("Axis", ev.axis)),
                                   ev.value)]
                      [] ev.t = "ButtonPressed" ->
                           [sts EXCEPT ![id].buttons =
                               Put(@, GetOr(lbl.buttons, ev.button,
                                            default_name("Button", ev.button)), TRUE)]
                      [] ev.t = "ButtonReleased" ->
                           [sts EXCEPT ![id].buttons =
                               Put(@, GetOr(lbl.buttons, ev.button,
                                            default_name("Button", ev.button)), FALSE)]
                      [] ev.t = "HatChanged" ->
                           [sts EXCEPT ![id].hats =
                               Put(@, GetOr(lbl.hats, ev.hat, default_name("Hat", ev.hat)),
                                   ev.value)]]

\* Mutant of OutPair: the clock runs backwards from one device to the next.
OutPair_clock_backwards(timed, id, ev, i) ==
    IF timed THEN <<id, [at |-> 0 - i, kind |-> ev]>> ELSE <<id, ev>>

\* (String, InputKind) and (Arc<str>, InputKind): the id and the event.
\* (id, InputEvent { at: now, kind }): `now` is read once per device; the ordinal
\* i of the device in the call stands for that instant.
OutPair(timed, id, ev, i) ==
    IF timed THEN <<id, [at |-> i, kind |-> ev]>> ELSE <<id, ev>>

\* The inner loop of the poll functions: apply and collect the events of one device.
RECURSIVE poll_device_events(_, _, _, _, _, _)
poll_device_events(acc, id, events, k, i, timed) ==
    IF k > Len(events) THEN acc
    ELSE poll_device_events(
             [mgr |-> apply_event(acc.mgr, id, events[k]),
              out |-> Append(acc.out, OutPair(timed, id, events[k], i))],
             id, events, k + 1, i, timed)

\* The outer loop: for i in 0..self.devices.len(). polled[i] is what
\* self.devices[i].poll() returns in this call.
RECURSIVE poll_devices(_, _, _, _)
poll_devices(acc, polled, i, timed) ==
    IF i > Len(acc.mgr.devices) THEN acc
    ELSE poll_devices(
             poll_device_events(acc, acc.mgr.devices[i].id, polled[i], 1, i, timed),
             polled, i + 1, timed)

\* The drain loop of poll_events: for (id, ev) in injected.
RECURSIVE drain_injected(_, _, _)
drain_injected(acc, inj, k) ==
    IF k > Len(inj) THEN acc
    ELSE drain_injected(
             [mgr |-> apply_event(acc.mgr, inj[k][1], inj[k][2]),
              out |-> Append(acc.out, inj[k])],
             inj, k + 1)

\* Mutant of take_injected: the queue is read but left in place.
take_injected_keep(m) == [taken |-> m.injected, mgr |-> m]

\* let injected = std::mem::take(&mut self.injected);
take_injected(m) == [taken |-> m.injected, mgr |-> [m EXCEPT !.injected = <<>>]]

\* Mutant of poll_events: the injected queue is drained before the devices are polled.
poll_events_injected_first(m, polled) ==
    LET t == take_injected(m)
        a == drain_injected([mgr |-> t.mgr, out |-> <<>>], t.taken, 1)
    IN  poll_devices(a, polled, 1, FALSE)

\* pub fn Manager::poll_events
poll_events(m, polled) ==
    LET a == poll_devices([mgr |-> m, out |-> <<>>], polled, 1, FALSE)
        t == take_injected(a.mgr)
    IN  drain_injected([mgr |-> t.mgr, out |-> a.out], t.taken, 1)

\* Mutant of poll_events_shared: it drains the injected queue like poll_events.
poll_events_shared_draining(m, polled) == poll_events(m, polled)

\* pub fn Manager::poll_events_shared
poll_events_shared(m, polled) ==
    poll_devices([mgr |-> m, out |-> <<>>], polled, 1, FALSE)

\* pub fn Manager::poll_events_timed
poll_events_timed(m, polled) ==
    poll_devices([mgr |-> m, out |-> <<>>], polled, 1, TRUE)

\* pub fn Manager::poll_events_timed_shared
poll_events_timed_shared(m, polled) ==
    poll_devices([mgr |-> m, out |-> <<>>], polled, 1, TRUE)

\* Mutant of rescan_carry: the prior state of a surviving id is dropped.
rescan_carry_fresh(old_states, id) == DeviceStateDefault

\* let mut st = old_states.get(&id).cloned().unwrap_or_default();
rescan_carry(old_states, id) == GetOr(old_states, id, DeviceStateDefault)

\* Manager::rescan: the loop over the probed devices.
RECURSIVE rescan_loop(_, _, _, _)
rescan_loop(new_devs, i, old_states, n) ==
    IF i > Len(new_devs) THEN n
    ELSE LET d       == new_devs[i]
             id      == d.id
             desc    == d.desc
             lm      == build_labels(desc)
             labels2 == Put(n.labels, id, lm)
             descs2  == Put(n.descs, id, desc)
             st      == seed_neutral(rescan_carry(old_states, id), labels2[id], desc)
             states2 == Put(n.states, id, st)
             infos2  == Append(n.infos, ManagedInfo(id, d.name, d.bus))
         IN  rescan_loop(new_devs, i + 1, old_states,
                 [labels |-> labels2, states |-> states2, infos |-> infos2,
                  descs |-> descs2])

\* Mutant of rescan_old_ids: the ids are taken from the state map.
rescan_old_ids_from_states(m) == DOMAIN m.states

\* let old_ids: HashSet<_> = self.infos.iter().map(|i| i.id.clone()).collect();
rescan_old_ids(m) == {m.infos[i].id : i \in DOMAIN m.infos}

\* Mutant of rescan_removed: the difference is taken the wrong way round.
rescan_removed_swapped(old_ids, new_ids) == new_ids \ old_ids

\* let removed: Vec<_> = old_ids.difference(&new_ids).cloned().collect();
rescan_removed(old_ids, new_ids) == old_ids \ new_ids

\* pub fn Manager::rescan. new_devs is what probe_devices() returns in this call.
rescan(m, new_devs) ==
    LET old_ids     == rescan_old_ids(m)
        old_states  == m.states
        n           == rescan_loop(new_devs, 1, old_states,
                           [labels |-> EmptyMap, states |-> EmptyMap, infos |-> <<>>,
                            descs |-> EmptyMap])
        new_ids     == {n.infos[i].id : i \in DOMAIN n.infos}
        removed     == rescan_removed(old_ids, new_ids)
        added_idset == new_ids \ old_ids
        IsAdded(i)  == i.id \in added_idset
        added       == SelectSeq(n.infos, IsAdded)
    IN  [mgr    |-> Mgr(new_devs, n.labels, n.states, n.infos, n.descs, m.injected),
         report |-> [added |-> added, removed |-> removed]]

\* Mutant of snapshot: it drains the injected queue into the state first.
snapshot_polling(m) ==
    LET a == drain_injected([mgr |-> [m EXCEPT !.injected = <<>>], out |-> <<>>],
                            m.injected, 1)
    IN  [mgr |-> a.mgr, snap |-> a.mgr.states]

\* pub fn Manager::snapshot: Snapshot(self.states.clone()), &self.
snapshot(m) == [mgr |-> m, snap |-> m.states]

\* pub fn Manager::devices
devices_of(m) == m.infos

\* pub fn Manager::channels
channels(m, device_id) == GetOr(m.descs, device_id, NoName)

(***************************************************************************)
(* Windows raw-input injection (src/src/manager.rs:431-731).               *)
(***************************************************************************)
NoPacket == [kind |-> "None"]

HexDigits == <<"0", "1", "2", "3", "4", "5", "6", "7", "8", "9",
               "a", "b", "c", "d", "e", "f">>

\* format!("{:04x}", n) for a u16
Hex4(n) ==
    HexDigits[((n \div 4096) % 16) + 1] \o HexDigits[((n \div 256) % 16) + 1]
        \o HexDigits[((n \div 16) % 16) + 1] \o HexDigits[(n % 16) + 1]

\* Mutant of pack_key_index: the extended flag is not stored.
pack_key_index_no_flag(scancode, is_extended) == scancode % 32768

\* raw_input::pack_key_index: low 15 bits scancode, bit 15 the extended flag.
pack_key_index(scancode, is_extended) ==
    (scancode % 32768) + (IF is_extended THEN 32768 ELSE 0)

\* Mutant of HasFlag: the bit above the mask is tested.
HasFlag_next_bit(f, mask) == (f \div (2 * mask)) % 2 = 1

\* (f & mask) != 0 for a one-bit mask
HasFlag(f, mask) == (f \div mask) % 2 = 1

\* descs.iter().any(|d| d.kind == kind && d.idx == idx)
DescExists(ds, kind, idx) == \E i \in DOMAIN ds : ds[i].kind = kind /\ ds[i].idx = idx

\* Mutant of ensure_device_entry: the entry is created anew on every packet.
ensure_device_entry_always(m, dev_id, name) ==
    [m EXCEPT !.labels = Put(@, dev_id, LabelMapsDefault),
              !.descs  = Put(@, dev_id, <<>>),
              !.states = Put(@, dev_id, DeviceStateDefault),
              !.infos  = Append(@, ManagedInfo(dev_id, name, "rawinput"))]

\* The first block of both ensure_* functions: create the device entry.
ensure_device_entry(m, dev_id, name) ==
    IF dev_id \in DOMAIN m.labels THEN m
    ELSE [m EXCEPT !.labels = Put(@, dev_id, LabelMapsDefault),
                   !.descs  = Put(@, dev_id, <<>>),
                   !.states = Put(@, dev_id, DeviceStateDefault),
                   !.infos  = Append(@, ManagedInfo(dev_id, name, "rawinput"))]

\* fn Manager::ensure_keyboard_key_registered
ensure_keyboard_key_registered(m, dev_id, key_idx) ==
    LET m1       == ensure_device_entry(m, dev_id, "Keyboard")
        key_name == "key_" \o Hex4(key_idx)
        m2       == IF dev_id \in DOMAIN m1.labels
                    THEN [m1 EXCEPT !.labels[dev_id].buttons = OrInsert(@, key_idx, key_name)]
                    ELSE m1
        m3       == IF dev_id \in DOMAIN m2.descs
                       /\ ~DescExists(m2.descs[dev_id], "Button", key_idx)
                    THEN [m2 EXCEPT !.descs[dev_id] =
                             Append(@, ChannelDesc("Button", key_idx, key_name, 0, 1))]
                    ELSE m2
    IN  IF dev_id \in DOMAIN m3.states
        THEN [m3 EXCEPT !.states[dev_id].buttons = OrInsert(@, key_name, FALSE)]
        ELSE m3

MouseAxes    == <<<<0, "dx">>, <<1, "dy">>, <<2, "wheel">>, <<3, "hwheel">>>>
MouseButtons == <<<<0, "lmb">>, <<1, "rmb">>, <<2, "mmb">>, <<3, "x1">>, <<4, "x2">>>>

\* for (idx, name) in table { map.entry(key).or_insert(value) }
RECURSIVE OrInsertAll(_, _, _, _, _)
OrInsertAll(map, table, i, byName, v) ==
    IF i > Len(table) THEN map
    ELSE OrInsertAll(
             IF byName THEN OrInsert(map, table[i][2], v)
                       ELSE OrInsert(map, table[i][1], table[i][2]),
             table, i + 1, byName, v)

\* for (idx, name) in table { if !exists { descs.push(ChannelDesc { .. }) } }
RECURSIVE PushMissingDescs(_, _, _, _, _, _)
PushMissingDescs(ds, table, i, kind, lo, hi) ==
    IF i > Len(table) THEN ds
    ELSE PushMissingDescs(
             IF DescExists(ds, kind, table[i][1]) THEN ds
             ELSE Append(ds, ChannelDesc(kind, table[i][1], table[i][2], lo, hi)),
             table, i + 1, kind, lo, hi)

\* fn Manager::ensure_mouse_registered
ensure_mouse_registered(m, dev_id) ==
    LET m1 == ensure_device_entry(m, dev_id, "Mouse")
        m2 == IF dev_id \in DOMAIN m1.labels
              THEN [m1 EXCEPT
                      !.labels[dev_id].axes    = OrInsertAll(@, MouseAxes, 1, FALSE, 0),
                      !.labels[dev_id].buttons = OrInsertAll(@, MouseButtons, 1, FALSE, 0)]
              ELSE m1
        m3 == IF dev_id \in DOMAIN m2.descs
              THEN [m2 EXCEPT !.descs[dev_id] =
                       PushMissingDescs(
                           PushMissingDescs(@, MouseAxes, 1, "Axis", -32768, 32767),
                           MouseButtons, 1, "Button", 0, 1)]
              ELSE m2
    IN  IF dev_id \in DOMAIN m3.states
        THEN [m3 EXCEPT
                !.states[dev_id].axes    = OrInsertAll(@, MouseAxes, 1, TRUE, 0),
                !.states[dev_id].buttons = OrInsertAll(@, MouseButtons, 1, TRUE, FALSE)]
        ELSE m3

\* match raw_input::device_name(h) { Some(s) => s, None => format!("<prefix>:{:p}", h) }
\* pkt.devname is what the OS answers for the handle.
raw_device_id(pkt, prefix) ==
    IF pkt.devname # NoName THEN pkt.devname ELSE prefix \o ":" \o pkt.hdevice

\* if cond { self.injected.push((dev_id, ev)) }
PushIf(cond, dev_id, ev) == IF cond THEN <<<<dev_id, ev>>>> ELSE <<>>

\* The events one mouse packet enqueues, in the order of the pushes.
mouse_events(dev_id, p) ==
       PushIf(p.dx # 0, dev_id, AxisMoved(0, p.dx * AxisScale))
    \o PushIf(p.dy # 0, dev_id, AxisMoved(1, p.dy * AxisScale))
    \o PushIf(p.wheel_delta # 0, dev_id, AxisMoved(2, (p.wheel_delta * AxisScale) \div 120))
    \o PushIf(p.hwheel_delta # 0, dev_id, AxisMoved(3, (p.hwheel_delta * AxisScale) \div 120))
    \o PushIf(HasFlag(p.buttons_flags, 1),   dev_id, ButtonPressed(0))
    \o PushIf(HasFlag(p.buttons_flags, 2),   dev_id, ButtonReleased(0))
    \o PushIf(HasFlag(p.buttons_flags, 4),   dev_id, ButtonPressed(1))
    \o PushIf(HasFlag(p.buttons_flags, 8),   dev_id, ButtonReleased(1))
    \o PushIf(HasFlag(p.buttons_flags, 16),  dev_id, ButtonPressed(2))
    \o PushIf(HasFlag(p.buttons_flags, 32),  dev_id, ButtonReleased(2))
    \o PushIf(HasFlag(p.buttons_flags, 64),  dev_id, ButtonPressed(3))
    \o PushIf(HasFlag(p.buttons_flags, 128), dev_id, ButtonReleased(3))
    \o PushIf(HasFlag(p.buttons_flags, 256), dev_id, ButtonPressed(4))
    \o PushIf(HasFlag(p.buttons_flags, 512), dev_id, ButtonReleased(4))

\* fn Manager::handle_raw_input_packet
handle_raw_input_packet(m, pkt) ==
    IF pkt.kind = "Keyboard"
    THEN LET key_idx == pack_key_index(pkt.scancode, pkt.is_extended)
             dev_id  == raw_device_id(pkt, "rawkbd")
             m1      == ensure_keyboard_key_registered(m, dev_id, key_idx)
             ev      == IF pkt.is_break THEN ButtonReleased(key_idx)
                                        ELSE ButtonPressed(key_idx)
         IN  [m1 EXCEPT !.injected = Append(@, <<dev_id, ev>>)]
    ELSE LET dev_id == raw_device_id(pkt, "rawmouse")
             m1     == ensure_mouse_registered(m, dev_id)
         IN  [m1 EXCEPT !.injected = @ \o mouse_events(dev_id, pkt)]

\* pub fn Manager::handle_wm_input. pkt is what raw_input::read_wm_input(lparam)
\* decodes, NoPacket when it returns None.
handle_wm_input(m, pkt) ==
    IF pkt = NoPacket THEN m ELSE handle_raw_input_packet(m, pkt)

\* pub fn Manager::handle_raw_input_bytes. pkt is what
\* raw_input::read_raw_input_bytes(bytes) decodes, NoPacket for malformed bytes.
handle_raw_input_bytes(m, pkt) ==
    IF pkt = NoPacket THEN m ELSE handle_raw_input_packet(m, pkt)

(***************************************************************************)
(* The environment of the Manager: the devices the probe can return, what  *)
(* their polls can return, and the raw-input packets the host can forward. *)
(***************************************************************************)
\* A device: what id(), name(), metadata().bus and describe() answer, and
\* `emits`, the deltas its poll() can return.
DevA1 == [id |-> "A", name |-> "Stick", bus |-> "usb",
          desc  |-> <<ChannelDesc("Axis", 0, "X", 0, 1023),
                      ChannelDesc("Button", 0, NoName, 0, 1)>>,
          emits |-> {AxisMoved(0, 60), ButtonPressed(0)}]

\* The same id, described with one more axis (a new instance after a rescan).
DevA2 == [id |-> "A", name |-> "Stick", bus |-> "usb",
          desc  |-> <<ChannelDesc("Axis", 0, "X", 0, 1023),
                      ChannelDesc("Axis", 1, NoName, 0, 1023),
                      ChannelDesc("Button", 0, NoName, 0, 1)>>,
          emits |-> {}]

\* A second HID collection of the same physical device: same vid:pid:serial,
\* hence the same id (DeviceFingerprint::to_string, src/src/device.rs:44-54).
DevA3 == [id |-> "A", name |-> "Stick", bus |-> "usb",
          desc  |-> <<ChannelDesc("Button", 1, "Trigger", 0, 1)>>,
          emits |-> {}]

DevB  == [id |-> "B", name |-> "Pad", bus |-> "xinput",
          desc  |-> <<ChannelDesc("Hat", 0, NoName, -1, 7),
                      ChannelDesc("Button", 0, "Fire", 0, 1)>>,
          emits |-> {HatChanged(0, 2)}]

\* What backends::probe_devices() (or the caller of from_devices) can hand over.
ProbeResults == {<<>>, <<DevA1, DevB>>, <<DevA2>>, <<DevA3, DevA1>>}

RECURSIVE TotalLen(_)
TotalLen(ss) == IF ss = <<>> THEN 0 ELSE Len(Head(ss)) + TotalLen(Tail(ss))

\* What the polls of the devices can return in one call: for each device a
\* sequence of its deltas, at most n events in the whole call.
PollInputs(devs, n) ==
    {p \in Choices([i \in 1..Len(devs) |-> SeqsUpTo(devs[i].emits, n)]) :
        TotalLen(p) <= n}

KeyboardPacket(brk) ==
    [kind |-> "Keyboard", hdevice |-> "0x1a", devname |-> NoName,
     scancode |-> 30, is_extended |-> FALSE, is_break |-> brk]

MousePacket(dx, flags) ==
    [kind |-> "Mouse", hdevice |-> "0x2b", devname |-> "M", dx |-> dx, dy |-> 0,
     wheel_delta |-> 0, hwheel_delta |-> 0, buttons_flags |-> flags]

\* What the raw-input decoder can hand to the manager.
KeyboardPackets == {KeyboardPacket(FALSE), KeyboardPacket(TRUE), NoPacket}
RawPackets == KeyboardPackets \cup {MousePacket(3, 1)}

\* A make packet of the right Ctrl key (scancode 0x1D with the E0 prefix) of
\* the same keyboard.
ExtendedKeyPacket ==
    [kind |-> "Keyboard", hdevice |-> "0x1a", devname |-> NoName,
     scancode |-> 29, is_extended |-> TRUE, is_break |-> FALSE]

\* A decoded RawPacket::Mouse with every field chosen by the host's hardware.
MousePacketOf(dx, dy, wheel, hwheel, flags) ==
    [kind |-> "Mouse", hdevice |-> "0x2b", devname |-> "M", dx |-> dx, dy |-> dy,
     wheel_delta |-> wheel, hwheel_delta |-> hwheel, buttons_flags |-> flags]

\* Mouse packets: a move with the left button going down, a vertical move with
\* both wheels turning, a left click inside one packet (DOWN and UP together),
\* and the left button going up while x2 goes down.
MousePackets ==
    {MousePacketOf(3, 0, 0, 0, 1), MousePacketOf(0, -2, 120, -240, 0),
     MousePacketOf(0, 0, 0, 0, 3), MousePacketOf(0, 0, 0, 0, 258)}

\* The snapshots the host holds: none yet, or the one taken last.
NoSnap == <<>>

(***************************************************************************)
(* The Manager as a state machine.                                         *)
(***************************************************************************)
\* The manager becomes m; the host sees operation `name` with input a return r.
Observe(name, a, r, m) ==
    /\ devices'  = m.devices
    /\ labels'   = m.labels
    /\ states'   = m.states
    /\ infos'    = m.infos
    /\ descs'    = m.descs
    /\ injected' = m.injected
    /\ op'  = name
    /\ arg' = a
    /\ ret' = r
    /\ pre' = Self

IdleHid == hid = "none" /\ hidLog = <<>> /\ hidQueue = <<>>
IdleXi  == xi = "none" /\ xiLog = <<>>

InitMgr(probes) ==
    \E probed \in probes : \E ctor \in {"discover", "from_devices"} :
        LET m == IF ctor = "discover" THEN discover(probed) ELSE from_devices(probed)
        IN  /\ devices  = m.devices
            /\ labels   = m.labels
            /\ states   = m.states
            /\ infos    = m.infos
            /\ descs    = m.descs
            /\ injected = m.injected
            /\ op  = ctor
            /\ arg = probed
            /\ ret = "Ok"
            /\ pre = m
            /\ snap = NoSnap
            /\ mgrLog = <<>>

PollEvents(n) ==
    \E polled \in PollInputs(devices, n) :
        LET r == poll_events(Self, polled)
        IN  Observe("poll_events", polled, r.out, r.mgr)
            /\ UNCHANGED <<snap, mgrLog, hidVars, xiVars>>

PollEventsShared(n) ==
    \E polled \in PollInputs(devices, n) :
        LET r == poll_events_shared(Self, polled)
        IN  Observe("poll_events_shared", polled, r.out, r.mgr)
            /\ UNCHANGED <<snap, mgrLog, hidVars, xiVars>>

PollEventsTimed(n) ==
    \E polled \in PollInputs(devices, n) :
        LET r == poll_events_timed(Self, polled)
        IN  Observe("poll_events_timed", polled, r.out, r.mgr)
            /\ UNCHANGED <<snap, mgrLog, hidVars, xiVars>>

PollEventsTimedShared(n) ==
    \E polled \in PollInputs(devices, n) :
        LET r == poll_events_timed_shared(Self, polled)
        IN  Observe("poll_events_timed_shared", polled, r.out, r.mgr)
            /\ UNCHANGED <<snap, mgrLog, hidVars, xiVars>>

Rescan(probes) ==
    \E probed \in probes :
        LET r == rescan(Self, probed)
        IN  Observe("rescan", probed, r.report, r.mgr)
            /\ UNCHANGED <<snap, mgrLog, hidVars, xiVars>>

TakeSnapshot ==
    LET r == snapshot(Self)
    IN  Observe("snapshot", "none", r.snap, r.mgr)
        /\ snap' = <<r.snap>>
        /\ UNCHANGED <<mgrLog, hidVars, xiVars>>

HandleWmInput(packets) ==
    \E pkt \in packets :
        LET m == handle_wm_input(Self, pkt)
        IN  /\ Len(m.injected) <= MaxInjected
            /\ Observe("handle_wm_input", pkt, "()", m)
            /\ UNCHANGED <<snap, mgrLog, hidVars, xiVars>>

HandleRawInputBytes(packets) ==
    \E pkt \in packets :
        LET m == handle_raw_input_bytes(Self, pkt)
        IN  /\ Len(m.injected) <= MaxInjected
            /\ Observe("handle_raw_input_bytes", pkt, "()", m)
            /\ UNCHANGED <<snap, mgrLog, hidVars, xiVars>>

Init == InitMgr(ProbeResults) /\ IdleHid /\ IdleXi

Next ==
    \/ PollEvents(MaxPoll)
    \/ PollEventsShared(MaxPoll)
    \/ PollEventsTimed(MaxPoll)
    \/ PollEventsTimedShared(MaxPoll)
    \/ Rescan(ProbeResults)
    \/ HandleWmInput(KeyboardPackets)
    \/ HandleRawInputBytes(KeyboardPackets)

Spec == Init /\ [][Next]_vars

(***************************************************************************)
(* A second specification, for snapshots: one probe result at construction, *)
(* the plain poll, rescans, keyboard packets and Manager::snapshot.         *)
(***************************************************************************)
SnapProbes == {<<DevA1, DevB>>}
SnapRescans == {<<DevA2>>}

InitSnap == InitMgr(SnapProbes) /\ IdleHid /\ IdleXi

NextSnap ==
    \/ PollEvents(SnapMaxPoll)
    \/ Rescan(SnapRescans)
    \/ HandleWmInput(KeyboardPackets)
    \/ TakeSnapshot

SpecSnap == InitSnap /\ [][NextSnap]_vars

(***************************************************************************)
(* A third specification, for raw input: the manager holds one device that  *)
(* returns no events, the host forwards keyboard and mouse packets, polls   *)
(* and rescans; every pair a poll returns is appended to mgrLog.            *)
(***************************************************************************)
RawProbes == {<<DevA2>>}

\* Manager::poll_events, with the host keeping what it returned.
PollEventsLogged(n) ==
    \E polled \in PollInputs(devices, n) :
        LET r == poll_events(Self, polled)
        IN  /\ Len(mgrLog) + Len(r.out) <= MaxLog
            /\ Observe("poll_events", polled, r.out, r.mgr)
            /\ mgrLog' = mgrLog \o r.out
            /\ UNCHANGED <<snap, hidVars, xiVars>>

\* Manager::handle_wm_input with a queue bound of its own.
HandleWmInputRaw(packets) ==
    \E pkt \in packets :
        LET m == handle_wm_input(Self, pkt)
        IN  /\ Len(m.injected) <= MaxRawQueue
            /\ Observe("handle_wm_input", pkt, "()", m)
            /\ UNCHANGED <<snap, mgrLog, hidVars, xiVars>>

InitRaw == InitMgr(RawProbes) /\ IdleHid /\ IdleXi

NextRaw ==
    \/ PollEventsLogged(MaxPoll)
    \/ HandleWmInputRaw(KeyboardPackets \cup {ExtendedKeyPacket} \cup MousePackets)
    \/ Rescan(RawProbes)

SpecRaw == InitRaw /\ [][NextRaw]_vars

(***************************************************************************)
(* Properties of the Manager.                                              *)
(***************************************************************************)
PollOps     == {"poll_events", "poll_events_shared", "poll_events_timed",
                "poll_events_timed_shared"}
InjectOps   == {"handle_wm_input", "handle_raw_input_bytes"}
ConstructOps == {"discover", "from_devices"}

IdsOf(infoSeq) == {infoSeq[i].id : i \in DOMAIN infoSeq}

IsPrefix(a, b) == Len(a) <= Len(b) /\ SubSeq(b, 1, Len(a)) = a

\* Number of events the devices before position i returned.
Offset(polled, i) == TotalLen(SubSeq(polled, 1, i - 1))

\* The sub-map of a DeviceState for a channel kind.
SubMap(st, kind) ==
    CASE kind = "Axis" -> st.axes [] kind = "Button" -> st.buttons [] kind = "Hat" -> st.hats

NeutralOf(kind) ==
    CASE kind = "Axis" -> 0 [] kind = "Button" -> FALSE [] kind = "Hat" -> -1

\* The label of a described channel: its name, or axisN / btnN / hatN.
LabelOf(d) == IF d.name # NoName THEN d.name ELSE default_name(d.kind, d.idx)

\* C1: in the list one poll_events call returns, the events read from the
\* devices come first, device by device in the order of the device list and in
\* the order each poll returned them; the injected events follow, in the order
\* in which they were enqueued.
C1_DeviceEventsThenInjected ==
    op = "poll_events" =>
        LET n == TotalLen(arg)
        IN  /\ Len(ret) = n + Len(pre.injected)
            /\ \A i \in DOMAIN arg : \A k \in DOMAIN arg[i] :
                   ret[Offset(arg, i) + k] = <<pre.devices[i].id, arg[i][k]>>
            /\ \A j \in DOMAIN pre.injected : ret[n + j] = pre.injected[j]

\* A poll_events call in which two devices each returned an event and two
\* different injected events were waiting.
C1_Witness ==
    /\ op = "poll_events"
    /\ Len(arg) = 2 /\ arg[1] # <<>> /\ arg[2] # <<>>
    /\ Len(pre.injected) = 2 /\ pre.injected[1] # pre.injected[2]
    /\ Len(ret) = 4

\* C2: after poll_events returns the injected queue is empty and the call's
\* result ends with exactly the events that were queued, each once and in
\* order; the raw-input handlers only append to the queue and no other
\* operation touches it, so a queued event is neither lost nor returned twice.
C2_InjectedDrainedExactlyOnce ==
    /\ op = "poll_events" =>
           /\ injected = <<>>
           /\ Len(ret) = TotalLen(arg) + Len(pre.injected)
           /\ SubSeq(ret, TotalLen(arg) + 1, Len(ret)) = pre.injected
    /\ op \in InjectOps => IsPrefix(pre.injected, injected)
    /\ op \in ConstructOps => injected = <<>>
    /\ op \notin ({"poll_events"} \cup InjectOps \cup ConstructOps) =>
           injected = pre.injected

\* A poll_events call that found two injected events waiting.
C2_Witness ==
    /\ op = "poll_events"
    /\ Len(pre.injected) = 2
    /\ injected = <<>>
    /\ Len(ret) >= 2

\* The (id, event) pairs of a poll result, timestamps dropped.
Untimed(out) ==
    [j \in DOMAIN out |->
        IF "kind" \in DOMAIN out[j][2] THEN <<out[j][1], out[j][2].kind>> ELSE out[j]]

\* C3: poll_events_shared, poll_events_timed and poll_events_timed_shared
\* return and apply the device events as poll_events would with an empty
\* queue, and leave the injected queue as it was: queued events are neither
\* returned nor applied.
C3_SharedAndTimedLeaveQueue ==
    op \in (PollOps \ {"poll_events"}) =>
        LET ref == poll_events([pre EXCEPT !.injected = <<>>], arg)
        IN  /\ injected = pre.injected
            /\ Untimed(ret) = ref.out
            /\ states = ref.mgr.states
            /\ labels = pre.labels /\ descs = pre.descs /\ infos = pre.infos

\* A timed-shared poll that returned a device event while an injected event,
\* which would have changed the state, stayed queued.
C3_Witness ==
    /\ op = "poll_events_timed_shared"
    /\ Len(injected) = 2
    /\ Len(ret) >= 1
    /\ states # pre.states
    /\ poll_events(pre, arg).mgr.states # states

\* C4: right after discover / from_devices every channel every device
\* describes has its label in the sub-map of its kind, with the neutral value.
C4_EveryChannelSeeded ==
    op \in ConstructOps =>
        \A i \in DOMAIN devices : \A k \in DOMAIN devices[i].desc :
            LET d  == devices[i].desc[k]
                id == devices[i].id
            IN  /\ id \in DOMAIN states
                /\ LabelOf(d) \in DOMAIN SubMap(states[id], d.kind)
                /\ SubMap(states[id], d.kind)[LabelOf(d)] = NeutralOf(d.kind)

RECURSIVE AddedIds(_, _)
AddedIds(probed, old) ==
    IF probed = <<>> THEN <<>>
    ELSE (IF Head(probed).id \in old THEN <<>> ELSE <<Head(probed).id>>)
             \o AddedIds(Tail(probed), old)

\* C6: rescan reports as removed exactly the ids listed before that the probe
\* does not return, as added exactly the probed devices whose id was not
\* listed; when the probe returns nothing the manager is left empty and every
\* id listed before is reported removed.
C6_RescanReport ==
    op = "rescan" =>
        LET old == IdsOf(pre.infos)
            new == {arg[i].id : i \in DOMAIN arg}
        IN  /\ ret.removed = old \ new
            /\ [i \in DOMAIN ret.added |-> ret.added[i].id] = AddedIds(arg, old)
            /\ IdsOf(infos) = new
            /\ arg = <<>> =>
                   /\ devices = <<>> /\ infos = <<>>
                   /\ states = EmptyMap /\ labels = EmptyMap /\ descs = EmptyMap
                   /\ ret.removed = old /\ ret.added = <<>>

\* A rescan whose probe returned nothing while a probed device and a raw-input
\* keyboard were listed.
C6_Witness ==
    /\ op = "rescan"
    /\ arg = <<>>
    /\ Cardinality(IdsOf(pre.infos)) = 3
    /\ ret.removed = IdsOf(pre.infos)
    /\ infos = <<>>

\* C8: an event applied for a device id that has no label maps leaves the
\* device-state map as it was: no entry is added or changed for that id.
C8_UnlabeledEventLeavesStates ==
    op \in PollOps =>
        \A id \in DOMAIN states :
            id \notin DOMAIN pre.labels =>
                id \in DOMAIN pre.states /\ states[id] = pre.states[id]

\* C7: Manager::snapshot returns a copy of the device-state map as it is at
\* the call and changes nothing in the manager; no later operation on the
\* manager changes a snapshot that was taken.
C7_SnapshotIsIndependentCopy ==
    [][ /\ op' = "snapshot" => (snap' = <<states>> /\ ret' = states /\ mgrVars' = mgrVars)
        /\ op' # "snapshot" => snap' = snap ]_vars

\* A snapshot was taken, then a poll changed the state of a device: the
\* snapshot still holds the old value.
C7_Witness ==
    /\ snap # NoSnap
    /\ op = "poll_events"
    /\ "A" \in DOMAIN snap[1] /\ "A" \in DOMAIN states
    /\ snap[1]["A"].axes["X"] = 0
    /\ states["A"].axes["X"] = 60

(***************************************************************************)
(* WinHidpParser (src/src/backends/windows/hidp_parser.rs).                *)
(* A key (report_id, usage_page, usage, link_collection) is a 4-tuple.     *)
(* Positions in `values` are 1-based.  What HIDP decodes from a report     *)
(* buffer is an input: `report` holds the status HidP_GetUsages returns,   *)
(* the button usages set in the report as (page, usage, collection), and   *)
(* the values it carries as (page, usage) -> [lc, raw].                    *)
(***************************************************************************)
\* Option<T>: None, or Some(x) holding x.
None == <<>>
Some(x) == <<x>>

NoParser == "<None>"

\* fn normalize_buttons: one ButtonField per cap, usage ranges expanded.
RECURSIVE normalize_buttons(_)
normalize_buttons(caps) ==
    IF caps = <<>> THEN <<>>
    ELSE LET c == Head(caps)
             usages == IF c.IsRange
                       THEN (IF c.UsageMin <= c.UsageMax
                             THEN [k \in 1..(c.UsageMax - c.UsageMin + 1) |->
                                       c.UsageMin + k - 1]
                             ELSE <<>>)
                       ELSE <<c.Usage>>
         IN  <<[report_id       |-> c.ReportID,
                usage_page      |-> c.UsagePage,
                link_collection |-> c.LinkCollection,
                usages          |-> usages]>> \o normalize_buttons(Tail(caps))

\* Mutant of classify_hat: slots are recognised by logical_max alone.
classify_hat_max_only(usage_page, usage, logical_min, logical_max) ==
    IF usage_page = 1 /\ usage = 57
    THEN <<TRUE, ~(logical_max = 7 \/ logical_max = 8)>>
    ELSE <<FALSE, FALSE>>

\* fn classify_hat(usage_page, usage, logical_min, logical_max) -> (bool, bool)
classify_hat(usage_page, usage, logical_min, logical_max) ==
    IF usage_page = 1 /\ usage = 57
    THEN LET is_slots == \/ (logical_min = 0 /\ logical_max = 7)
                         \/ (logical_min = 1 /\ logical_max = 8)
         IN  <<TRUE, ~is_slots>>
    ELSE <<FALSE, FALSE>>

\* The closure push_field of normalize_values.
push_field(c, u) ==
    IF c.UsagePage = 0 THEN <<>>
    ELSE LET h == classify_hat(c.UsagePage, u, c.LogicalMin, c.LogicalMax)
         IN  <<[report_id       |-> c.ReportID,
                usage_page      |-> c.UsagePage,
                usage           |-> u,
                link_collection |-> c.LinkCollection,
                logical_min     |-> c.LogicalMin,
                logical_max     |-> c.LogicalMax,
                is_hat          |-> h[1],
                hat_is_degrees  |-> h[2],
                axis_index      |-> None,
                hat_index       |-> None]>>

RECURSIVE push_range(_, _, _)
push_range(c, u, u_max) ==
    IF u > u_max THEN <<>> ELSE push_field(c, u) \o push_range(c, u + 1, u_max)

\* fn normalize_values: one ValueField per usage of every cap.
RECURSIVE normalize_values(_)
normalize_values(caps) ==
    IF caps = <<>> THEN <<>>
    ELSE LET c == Head(caps)
         IN  (IF c.IsRange THEN push_range(c, c.UsageMin, c.UsageMax)
              ELSE push_field(c, c.Usage)) \o normalize_values(Tail(caps))

\* new, "Axis indices" and "Hat indices": acc = [values, axes, hats].
RECURSIVE assign_value_indices(_, _)
assign_value_indices(acc, i) ==
    IF i > Len(acc.values) THEN acc
    ELSE IF acc.values[i].is_hat
         THEN assign_value_indices(
                  [acc EXCEPT !.values[i].hat_index = Some(Len(acc.hats)),
                              !.hats = Append(acc.hats, i)], i + 1)
         ELSE assign_value_indices(
                  [acc EXCEPT !.values[i].axis_index = Some(Len(acc.axes)),
                              !.axes = Append(acc.axes, i)], i + 1)

\* new, "Button indices": acc = [map, by_index]; field b, usage position k.
RECURSIVE assign_button_indices(_, _, _, _)
assign_button_indices(acc, buttons, b, k) ==
    IF b > Len(buttons) THEN acc
    ELSE IF k > Len(buttons[b].usages) THEN assign_button_indices(acc, buttons, b + 1, 1)
    ELSE LET bf  == buttons[b]
             key == <<bf.report_id, bf.usage_page, bf.usages[k], bf.link_collection>>
         IN  assign_button_indices(
                 [map      |-> Put(acc.map, key, Len(acc.by_index)),
                  by_index |-> Append(acc.by_index, key)],
                 buttons, b, k + 1)

\* new: max_span, the widest logical range (at least 1).
RECURSIVE max_span_of(_, _, _)
max_span_of(values, i, m) ==
    IF i > Len(values) THEN m
    ELSE max_span_of(values, i + 1,
                     Max(m, values[i].logical_max - values[i].logical_min))

\* Mutant of new_last_pressed_buttons: every button starts as pressed.
new_last_pressed_all(buttons_by_index) == {k - 1 : k \in DOMAIN buttons_by_index}

\* new: last_pressed_buttons: HashSet::new()
new_last_pressed_buttons(buttons_by_index) == {}

\* The two OS resources of a parser, as the struct holds them: the device
\* file handle and the preparsed-data handle; null / 0 is NullHandle.
OpenHandle == "handle"
OpenPpd    == "ppd"
NullHandle == "null"

\* new, the resources it acquires and releases, in order: the handle once
\* open_device_handle succeeds, the preparsed data once
\* HidD_GetPreparsedData succeeds; both are released on the paths that
\* return None.
new_os_calls(info) ==
    LET btn_caps == IF info.btn_caps = None THEN <<>> ELSE info.btn_caps[1]
        val_caps == IF info.val_caps = None THEN <<>> ELSE info.val_caps[1]
    IN  IF ~info.open_ok THEN <<>>
        ELSE IF ~info.ppd_ok
        THEN <<<<"acquire", OpenHandle>>, <<"CloseHandle", OpenHandle>>>>
        ELSE IF ~info.caps_ok \/ (btn_caps = <<>> /\ val_caps = <<>>)
        THEN <<<<"acquire", OpenHandle>>, <<"acquire", OpenPpd>>,
               <<"HidD_FreePreparsedData", OpenPpd>>, <<"CloseHandle", OpenHandle>>>>
        ELSE <<<<"acquire", OpenHandle>>, <<"acquire", OpenPpd>>>>

\* Mutant of WinHidpParser_drop: the file handle is not closed.
WinHidpParser_drop_keep_handle(p) ==
    [p     |-> [p EXCEPT !.ppd = NullHandle],
     calls |-> IF p.ppd # NullHandle THEN <<<<"HidD_FreePreparsedData", p.ppd>>>> ELSE <<>>]

\* impl Drop for WinHidpParser: the parser afterwards and the OS calls made.
WinHidpParser_drop(p) ==
    [p     |-> [p EXCEPT !.ppd = NullHandle, !.handle = NullHandle],
     calls |-> (IF p.ppd # NullHandle THEN <<<<"HidD_FreePreparsedData", p.ppd>>>> ELSE <<>>)
               \o (IF p.handle # NullHandle THEN <<<<"CloseHandle", p.handle>>>> ELSE <<>>)]

\* pub fn WinHidpParser::new.  info carries what the OS calls return: whether
\* the handle opens, HidD_GetPreparsedData and HidP_GetCaps succeed, and the
\* button / value caps (None when their enumeration fails).
WinHidpParser_new(info) ==
    IF ~info.open_ok \/ ~info.ppd_ok \/ ~info.caps_ok THEN NoParser
    ELSE
    LET btn_caps == IF info.btn_caps = None THEN <<>> ELSE info.btn_caps[1]
        val_caps == IF info.val_caps = None THEN <<>> ELSE info.val_caps[1]
    IN  IF btn_caps = <<>> /\ val_caps = <<>> THEN NoParser
        ELSE
        LET report_ids == {btn_caps[i].ReportID : i \in DOMAIN btn_caps}
                              \cup {val_caps[i].ReportID : i \in DOMAIN val_caps}
            only_rid0  == report_ids = {0}
            buttons    == normalize_buttons(btn_caps)
            values0    == normalize_values(val_caps)
            values1    == IF info.vendor_id = 8989 /\ info.product_id = 287
                          THEN [i \in DOMAIN values0 |->
                                   [values0[i] EXCEPT !.link_collection = 0]]
                          ELSE values0
            vi         == assign_value_indices(
                              [values |-> values1, axes |-> <<>>, hats |-> <<>>], 1)
            bi         == assign_button_indices(
                              [map |-> EmptyMap, by_index |-> <<>>], buttons, 1, 1)
        IN  [handle                |-> OpenHandle,
             ppd                   |-> OpenPpd,
             input_report_max_len  |-> info.InputReportByteLength,
             buttons               |-> buttons,
             values                |-> vi.values,
             button_index_by_usage |-> bi.map,
             buttons_by_index      |-> bi.by_index,
             axis_fields_by_index  |-> vi.axes,
             hat_fields_by_index   |-> vi.hats,
             last_pressed_buttons  |-> new_last_pressed_buttons(bi.by_index),
             last_axis_value       |-> EmptyMap,
             last_hat_value        |-> EmptyMap,
             max_span              |-> max_span_of(vi.values, 1, 1),
             only_rid0             |-> only_rid0]

\* fn expects_report_id_prefix
expects_report_id_prefix(p) == ~p.only_rid0

\* Mutant of normalize_axis_value: the result is not clamped.
normalize_axis_value_unclamped(v, lo, hi) ==
    IF hi = lo THEN 0
    ELSE (2 * AxisScale * (v - lo)) \div (hi - lo) - AxisScale

\* fn normalize_axis_value(v, lo, hi), in units of 1 / AxisScale.
normalize_axis_value(v, lo, hi) ==
    IF hi = lo THEN 0
    ELSE LET n == (2 * AxisScale * (v - lo)) \div (hi - lo) - AxisScale
         IN  IF n < -AxisScale THEN -AxisScale
             ELSE IF n > AxisScale THEN AxisScale ELSE n

\* The value normalize_axis_value returns, as the numerator of a fraction
\* whose denominator is |hi - lo| (1 when hi = lo): what last_axis_value
\* remembers, so that the comparison with axis_epsilon loses nothing.
axis_numerator(v, lo, hi) ==
    IF hi = lo THEN 0
    ELSE LET n == (IF hi > lo THEN 1 ELSE -1) * (2 * (v - lo) - (hi - lo))
         IN  IF n < -Abs(hi - lo) THEN -Abs(hi - lo)
             ELSE IF n > Abs(hi - lo) THEN Abs(hi - lo) ELSE n

\* Mutant of exceeds_epsilon: the threshold is one LSB, not two.
exceeds_epsilon_one_lsb(n, last, span, max_span) ==
    Abs(n - last) * max_span > 2 * span

\* parse: (v - last).abs() > self.axis_epsilon, with axis_epsilon =
\* (2 / max_span) * 2 and v, last the numerators n, last over span.
exceeds_epsilon(n, last, span, max_span) ==
    Abs(n - last) * max_span > 4 * span

\* Rust's % on i32: the remainder has the sign of the dividend.
RustRem(a, b) == IF a >= 0 THEN a % b ELSE -((-a) % b)

\* Mutant of hat_value_to_slot: a negative remainder is not wrapped.
hat_value_to_slot_unwrapped(raw, lo, hi, is_degrees) ==
    IF raw < lo \/ raw > hi \/ raw \in {-1, 8, 15, 255, 65535} THEN -1
    ELSE IF ~is_degrees THEN (IF raw >= 0 /\ raw <= 7 THEN raw ELSE -1)
    ELSE RustRem((2 * raw + 45) \div 90, 8)

\* fn hat_value_to_slot(raw, lo, hi, is_degrees) -> i16
hat_value_to_slot(raw, lo, hi, is_degrees) ==
    IF raw < lo \/ raw > hi \/ raw \in {-1, 8, 15, 255, 65535} THEN -1
    ELSE IF ~is_degrees THEN (IF raw >= 0 /\ raw <= 7 THEN raw ELSE -1)
    ELSE LET s == RustRem((2 * raw + 45) \div 90, 8)
         IN  IF s < 0 THEN s + 8 ELSE s

\* HidP_GetUsages for a button field: the status (the report's, or a failure
\* for the usage pages the report names in fail_pages), and the usages of
\* the field's page that are set in the report (collection 0 means any).
HidP_GetUsages(bf, report) ==
    [status |-> IF bf.usage_page \in report.fail_pages THEN "FAIL"
                ELSE report.usages_status,
     usages |-> {t[2] : t \in {d \in report.down :
                    /\ d[1] = bf.usage_page
                    /\ (bf.link_collection = 0 \/ d[3] = bf.link_collection)}}]

\* HidP_GetUsageValue for (usage_page, lc, usage).  The raw values of the
\* enumerated reports are below 2^31, where `value as i32` changes nothing.
HidP_GetUsageValue(usage_page, lc, usage, report) ==
    LET k == <<usage_page, usage>>
    IN  IF k \in DOMAIN report.values /\ (lc = 0 \/ report.values[k].lc = lc)
        THEN [status |-> "SUCCESS", value |-> report.values[k].raw]
        ELSE [status |-> "FAIL", value |-> 0]

\* parse: the effective report id.
effective_rid(p, ctx_report_id) ==
    IF p.only_rid0 /\ ctx_report_id # 0 THEN 0 ELSE ctx_report_id

\* parse, the lookup of one usage in button_index_by_usage: exact key first,
\* then the key with report id 0.
lookup_button(p, rid, bf, usage) ==
    LET key_exact    == <<rid, bf.usage_page, usage, bf.link_collection>>
        key_fallback == <<0, bf.usage_page, usage, bf.link_collection>>
    IN  IF key_exact \in DOMAIN p.button_index_by_usage
        THEN {p.button_index_by_usage[key_exact]}
        ELSE IF key_fallback \in DOMAIN p.button_index_by_usage
        THEN {p.button_index_by_usage[key_fallback]}
        ELSE {}

\* parse: a field is read unless it has another, non-zero, report id.
button_field_read(bf, rid) == ~(bf.report_id # 0 /\ bf.report_id # rid)

\* parse, "BUTTONS": the set pressed_now.
pressed_now_of(p, rid, report) ==
    UNION {
        LET bf == p.buttons[b]
            r  == HidP_GetUsages(bf, report)
        IN  IF ~button_field_read(bf, rid) \/ r.status # "SUCCESS" THEN {}
            ELSE UNION {lookup_button(p, rid, bf, u) : u \in r.usages}
        : b \in DOMAIN p.buttons }

\* The elements of a set of integers in ascending order (BTreeSet iteration).
RECURSIVE Ascending(_)
Ascending(S) ==
    IF S = {} THEN <<>>
    ELSE LET m == CHOOSE x \in S : \A y \in S : x <= y
         IN  <<m>> \o Ascending(S \ {m})

\* The orders in which a HashSet can be iterated.
RECURSIVE Orders(_)
Orders(S) ==
    IF S = {} THEN {<<>>}
    ELSE UNION {{<<x>> \o o : o \in Orders(S \ {x})} : x \in S}

\* parse: the buttons that get a ButtonPressed.
pressed_edges(now, last) == now \ last

\* parse: the two loops pushing button events.
button_events(now, last, last_order) ==
    LET pr == Ascending(pressed_edges(now, last))
        IsRel(x) == x \notin now
        rl == SelectSeq(last_order, IsRel)
    IN  [k \in DOMAIN pr |-> ButtonPressed(pr[k])]
            \o [k \in DOMAIN rl |-> ButtonReleased(rl[k])]

\* Mutant of force_link_collection_0: the field keeps its collection.
force_link_collection_0_skipped(p, i) == p

\* parse, after a successful retry: vf.link_collection = 0
force_link_collection_0(p, i) == [p EXCEPT !.values[i].link_collection = 0]

\* Mutant of last_hat: a hat never seen counts as neutral.
last_hat_neutral(p, hidx) == GetOr(p.last_hat_value, hidx, -1)

\* parse: *self.last_hat_value.get(&hidx).unwrap_or(&i16::MIN)
last_hat(p, hidx) == GetOr(p.last_hat_value, hidx, -32768)

\* parse, "VALUES": for vf in self.values.iter_mut().  acc = [p, out].
RECURSIVE parse_values(_, _, _, _)
parse_values(acc, rid, report, i) ==
    IF i > Len(acc.p.values) THEN acc
    ELSE
    LET vf == acc.p.values[i]
    IN  IF vf.report_id # 0 /\ vf.report_id # rid
        THEN parse_values(acc, rid, report, i + 1)
        ELSE
        LET lc     == vf.link_collection
            first  == HidP_GetUsageValue(vf.usage_page, lc, vf.usage, report)
            retry  == HidP_GetUsageValue(vf.usage_page, 0, vf.usage, report)
            useRetry == first.status # "SUCCESS" /\ lc # 0 /\ retry.status = "SUCCESS"
            status == IF useRetry THEN "SUCCESS" ELSE first.status
            value  == IF first.status # "SUCCESS" /\ lc # 0 THEN retry.value
                      ELSE first.value
            p1     == IF useRetry
                      THEN force_link_collection_0(acc.p, i)
                      ELSE acc.p
        IN  IF status # "SUCCESS"
            THEN parse_values([acc EXCEPT !.p = p1], rid, report, i + 1)
            ELSE IF vf.is_hat
            THEN LET slot == hat_value_to_slot(value, vf.logical_min,
                                               vf.logical_max, vf.hat_is_degrees)
                     hidx == vf.hat_index[1]
                     last == last_hat(p1, hidx)
                 IN  IF vf.hat_index # None /\ last # slot
                     THEN parse_values(
                              [p   |-> [p1 EXCEPT !.last_hat_value =
                                           Put(p1.last_hat_value, hidx, slot)],
                               out |-> Append(acc.out, HatChanged(hidx, slot))],
                              rid, report, i + 1)
                     ELSE parse_values([acc EXCEPT !.p = p1], rid, report, i + 1)
            ELSE LET v    == normalize_axis_value(value, vf.logical_min,
                                                  vf.logical_max)
                     n    == axis_numerator(value, vf.logical_min, vf.logical_max)
                     span == IF vf.logical_max = vf.logical_min THEN 1
                             ELSE Abs(vf.logical_max - vf.logical_min)
                     aidx == vf.axis_index[1]
                 IN  IF vf.axis_index # None
                        /\ (\/ aidx \notin DOMAIN p1.last_axis_value
                            \/ exceeds_epsilon(n, p1.last_axis_value[aidx], span,
                                               p1.max_span))
                     THEN parse_values(
                              [p   |-> [p1 EXCEPT !.last_axis_value =
                                           Put(p1.last_axis_value, aidx, n)],
                               out |-> Append(acc.out, AxisMoved(aidx, v))],
                              rid, report, i + 1)
                     ELSE parse_values([acc EXCEPT !.p = p1], rid, report, i + 1)

\* fn parse(&mut self, ctx, payload, out).  last_order is the order in which
\* the HashSet last_pressed_buttons is iterated in this call.
parse(p, ctx_report_id, report, last_order) ==
    LET rid == effective_rid(p, ctx_report_id)
        now == pressed_now_of(p, rid, report)
        ev  == button_events(now, p.last_pressed_buttons, last_order)
        p1  == [p EXCEPT !.last_pressed_buttons = now]
    IN  parse_values([p |-> p1, out |-> ev], rid, report, 1)

(***************************************************************************)
(* XInputDevice (src/src/backends/windows/xinput_devices.rs).              *)
(* The u16 button bitfield is the set of the names of its set bits; XOR is *)
(* the symmetric difference.  last_poll (an Instant nothing reads) is left *)
(* out.  Arrays are 1-based, so last_axes[i + 1] is axis i.                *)
(***************************************************************************)
\* const MAX_AXES: usize = 6
MAX_AXES == 6

\* XInputDevice::new: the last-state fields.
XInputDevice_new ==
    [last_axes    |-> [i \in 1..MAX_AXES |-> 0],
     last_buttons |-> {},
     last_hat     |-> -1,
     connected    |-> FALSE]

\* fn normalize_thumb(v: i16) -> f32
normalize_thumb(v) ==
    IF v >= 0 THEN (v * AxisScale) \div 32767
    ELSE -(((-v) * AxisScale) \div 32768)

\* fn normalize_trigger(v: u8) -> f32
normalize_trigger(v) == (v * 2 * AxisScale) \div 255 - AxisScale

\* fn compute_hat(buttons: u16) -> i8
compute_hat(buttons) ==
    LET up    == "DPAD_UP" \in buttons
        down  == "DPAD_DOWN" \in buttons
        left  == "DPAD_LEFT" \in buttons
        right == "DPAD_RIGHT" \in buttons
        m     == <<up, down, left, right>>
    IN  IF ~up /\ ~down /\ ~left /\ ~right THEN -1
        ELSE CASE m = <<TRUE, FALSE, FALSE, FALSE>> -> 0
               [] m = <<TRUE, FALSE, FALSE, TRUE>>  -> 1
               [] m = <<FALSE, FALSE, FALSE, TRUE>> -> 2
               [] m = <<FALSE, TRUE, FALSE, TRUE>>  -> 3
               [] m = <<FALSE, TRUE, FALSE, FALSE>> -> 4
               [] m = <<FALSE, TRUE, TRUE, FALSE>>  -> 5
               [] m = <<FALSE, FALSE, TRUE, FALSE>> -> 6
               [] m = <<TRUE, FALSE, TRUE, FALSE>>  -> 7
               [] OTHER -> -1

\* const BUTTON_MAP: &[(u16, u8)]
BUTTON_MAP ==
    << <<"A", 0>>, <<"B", 1>>, <<"X", 2>>, <<"Y", 3>>,
       <<"LEFT_SHOULDER", 4>>, <<"RIGHT_SHOULDER", 5>>,
       <<"BACK", 6>>, <<"START", 7>>,
       <<"LEFT_THUMB", 8>>, <<"RIGHT_THUMB", 9>> >>

\* The axis loop of poll: for (i, &v) in new_axes.iter().enumerate().
\* acc = [dev, events].
RECURSIVE xinput_axes_loop(_, _, _)
xinput_axes_loop(acc, new_axes, i) ==
    IF i > MAX_AXES THEN acc
    ELSE LET v == new_axes[i]
         IN  IF Abs(v - acc.dev.last_axes[i]) * 1000 > AxisScale
             THEN xinput_axes_loop(
                      [dev    |-> [acc.dev EXCEPT !.last_axes[i] = v],
                       events |-> Append(acc.events, AxisMoved(i - 1, v))],
                      new_axes, i + 1)
             ELSE xinput_axes_loop(acc, new_axes, i + 1)

\* let changed = buttons ^ self.last_buttons;
xinput_changed(buttons, last_buttons) ==
    (buttons \ last_buttons) \cup (last_buttons \ buttons)

\* The button loop of poll: for &(mask, idx) in BUTTON_MAP.
RECURSIVE xinput_buttons_loop(_, _, _, _)
xinput_buttons_loop(events, buttons, changed, k) ==
    IF k > Len(BUTTON_MAP) THEN events
    ELSE LET mask == BUTTON_MAP[k][1]
             idx  == BUTTON_MAP[k][2]
         IN  xinput_buttons_loop(
                 IF mask \in changed
                 THEN Append(events, IF mask \in buttons THEN ButtonPressed(idx)
                                     ELSE ButtonReleased(idx))
                 ELSE events,
                 buttons, changed, k + 1)

\* Mutant of xinput_poll_failed: a failed poll recentres the remembered hat.
xinput_poll_failed_hat_neutral(x) ==
    [x EXCEPT !.connected = FALSE, !.last_hat = -1]

\* Mutant of xinput_poll_failed: a failed poll forgets the buttons.
xinput_poll_failed_reset(x) ==
    [x EXCEPT !.connected = FALSE, !.last_buttons = {}]

\* poll, the branch res != 0: only `connected` is cleared.
xinput_poll_failed(x) ==
    IF x.connected THEN [x EXCEPT !.connected = FALSE] ELSE x

\* fn poll(&mut self) -> Vec<InputKind>.  res and gp are what XInputGetState
\* returned and wrote.
xinput_poll(x, res, gp) ==
    IF res # 0 THEN [dev |-> xinput_poll_failed(x), events |-> <<>>]
    ELSE
    LET x1       == [x EXCEPT !.connected = TRUE]
        new_axes == << normalize_thumb(gp.sThumbLX),
                       -normalize_thumb(gp.sThumbLY),
                       normalize_thumb(gp.sThumbRX),
                       -normalize_thumb(gp.sThumbRY),
                       normalize_trigger(gp.bLeftTrigger),
                       normalize_trigger(gp.bRightTrigger) >>
        a        == xinput_axes_loop([dev |-> x1, events |-> <<>>], new_axes, 1)
        buttons  == gp.wButtons
        changed  == xinput_changed(buttons, x.last_buttons)
        ev2      == xinput_buttons_loop(a.events, buttons, changed, 1)
        new_hat  == compute_hat(buttons)
        hatch    == new_hat # a.dev.last_hat
        ev3      == IF hatch THEN Append(ev2, HatChanged(0, new_hat)) ELSE ev2
    IN  [dev    |-> [a.dev EXCEPT !.last_hat = new_hat, !.last_buttons = buttons],
         events |-> ev3]

(***************************************************************************)
(* The devices under test and what they are fed.                           *)
(***************************************************************************)
ButtonCapRange(rid, page, lc, lo, hi) ==
    [ReportID |-> rid, UsagePage |-> page, LinkCollection |-> lc,
     IsRange |-> TRUE, UsageMin |-> lo, UsageMax |-> hi, Usage |-> lo]

ButtonCap(rid, page, lc, u) ==
    [ReportID |-> rid, UsagePage |-> page, LinkCollection |-> lc,
     IsRange |-> FALSE, UsageMin |-> u, UsageMax |-> u, Usage |-> u]

ValueCap(rid, page, lc, u, lo, hi) ==
    [ReportID |-> rid, UsagePage |-> page, LinkCollection |-> lc,
     IsRange |-> FALSE, UsageMin |-> u, UsageMax |-> u, Usage |-> u,
     LogicalMin |-> lo, LogicalMax |-> hi]

\* A gamepad with two input reports: report 1 carries buttons 1..2, the X
\* axis (0..240, in collection 1) and a hat, report 2 carries button 3.
PadInfo ==
    [open_ok |-> TRUE, ppd_ok |-> TRUE, caps_ok |-> TRUE,
     vendor_id |-> 1118, product_id |-> 654, InputReportByteLength |-> 8,
     btn_caps |-> Some(<<ButtonCapRange(1, 9, 0, 1, 2), ButtonCap(2, 9, 0, 3)>>),
     val_caps |-> Some(<<ValueCap(1, 1, 1, 48, 0, 240), ValueCap(1, 1, 0, 57, 0, 7)>>)]

\* A stick whose descriptor uses no report ids: buttons 1..2 and the X axis.
StickInfo ==
    [open_ok |-> TRUE, ppd_ok |-> TRUE, caps_ok |-> TRUE,
     vendor_id |-> 1133, product_id |-> 49685, InputReportByteLength |-> 4,
     btn_caps |-> Some(<<ButtonCapRange(0, 9, 0, 1, 2)>>),
     val_caps |-> Some(<<ValueCap(0, 1, 0, 48, 0, 240)>>)]

HidInfos == {PadInfo, StickInfo}

HidReport(rid, status, down, x, xlc, hat) ==
    [rid |-> rid, usages_status |-> status, fail_pages |-> {}, down |-> down,
     values |-> IF x < 0 THEN EmptyMap
                ELSE (<<1, 48>> :> [lc |-> xlc, raw |-> x])
                     @@ (<<1, 57>> :> [lc |-> 0, raw |-> hat])]

\* The (ctx.report_id, report) pairs fed to parse.
HidReports ==
    { HidReport(1, "SUCCESS", {<<9, 1, 0>>}, 120, 1, 8),
      HidReport(1, "SUCCESS", {<<9, 1, 0>>, <<9, 2, 0>>}, 240, 2, 2),
      HidReport(1, "SUCCESS", {}, 121, 1, 8),
      HidReport(2, "SUCCESS", {<<9, 3, 0>>}, -1, 0, 0),
      HidReport(1, "FAIL", {<<9, 1, 0>>}, -1, 0, 0),
      HidReport(0, "SUCCESS", {<<9, 2, 0>>}, 0, 0, 8) }

Gamepad(buttons, lx, lt) ==
    [wButtons |-> buttons, sThumbLX |-> lx, sThumbLY |-> 0, sThumbRX |-> 0,
     sThumbRY |-> -32768, bLeftTrigger |-> lt, bRightTrigger |-> 0]

\* What XInputGetState returns: 0 and a state, or ERROR_DEVICE_NOT_CONNECTED
\* and the zeroed state.
XInputResults ==
    { [res |-> 0, gp |-> Gamepad({"A"}, 32767, 255)],
      [res |-> 0, gp |-> Gamepad({}, 0, 0)],
      [res |-> 0, gp |-> Gamepad({"A", "B", "DPAD_UP", "DPAD_RIGHT"}, 0, 0)],
      [res |-> 1167, gp |-> Gamepad({}, 0, 0)] }

(***************************************************************************)
(* A third specification: one parser and one XInput device, fed reports    *)
(* and polls; the Manager is not involved.                                 *)
(***************************************************************************)
IdleMgr ==
    /\ devices = <<>> /\ labels = EmptyMap /\ states = EmptyMap
    /\ infos = <<>> /\ descs = EmptyMap /\ injected = <<>>
    /\ op = "none" /\ arg = "none" /\ ret = "none"
    /\ pre = Mgr(<<>>, EmptyMap, EmptyMap, <<>>, EmptyMap, <<>>)
    /\ snap = NoSnap
    /\ mgrLog = <<>>

InitDev ==
    /\ IdleMgr
    /\ \E info \in HidInfos : hid = WinHidpParser_new(info)
    /\ hidLog = <<>>
    /\ hidQueue = <<>>
    /\ xi = XInputDevice_new
    /\ xiLog = <<>>

\* One call of ReportParser::parse on the parser.
HidParse ==
    /\ Len(hidLog) + Len(xiLog) < MaxReports
    /\ \E report \in HidReports : \E order \in Orders(hid.last_pressed_buttons) :
           LET r == parse(hid, report.rid, report, order)
           IN  /\ hid' = r.p
               /\ hidLog' = Append(hidLog, [rid |-> report.rid, report |-> report,
                                            out |-> r.out])
    /\ UNCHANGED <<mgrVars, obsVars, hidQueue, xiVars>>

\* One call of Device::poll on the XInput device.
XInputPoll ==
    /\ Len(hidLog) + Len(xiLog) < MaxReports
    /\ \E s \in XInputResults :
           LET r == xinput_poll(xi, s.res, s.gp)
           IN  /\ xi' = r.dev
               /\ xiLog' = Append(xiLog, [res |-> s.res, gp |-> s.gp, out |-> r.events])
    /\ UNCHANGED <<mgrVars, obsVars, hidVars>>

NextDev == HidParse \/ XInputPoll

SpecDev == InitDev /\ [][NextDev]_vars

(***************************************************************************)
(* Properties of the parser and of the XInput device.                      *)
(***************************************************************************)
\* Every event of a log, in the order in which it was emitted.
RECURSIVE AllEvents(_)
AllEvents(log) ==
    IF log = <<>> THEN <<>> ELSE Head(log).out \o AllEvents(Tail(log))

\* The ButtonPressed / ButtonReleased events of button b, in order.
ButtonEdges(log, b) ==
    SelectSeq(AllEvents(log),
              LAMBDA e : e.t \in {"ButtonPressed", "ButtonReleased"} /\ e.button = b)

Alternates(edges) ==
    \A k \in DOMAIN edges :
        edges[k].t = IF k % 2 = 1 THEN "ButtonPressed" ELSE "ButtonReleased"

ButtonIndices == {BUTTON_MAP[k][2] : k \in DOMAIN BUTTON_MAP}

\* C9: for the parser and for the XInput device, whatever reports and polls
\* (failed polls included) have happened, the button edges emitted for each
\* button index alternate, the first being a ButtonPressed.
C9_ButtonEdgesAlternate ==
    \A b \in ButtonIndices :
        /\ Alternates(ButtonEdges(hidLog, b))
        /\ Alternates(ButtonEdges(xiLog, b))

\* The XInput device saw A pressed, then a failed poll, then A released; the
\* parser emitted a press and a release of its button 0.
C9_Witness ==
    /\ Len(xiLog) = 3
    /\ xiLog[1].res = 0 /\ xiLog[2].res # 0 /\ xiLog[3].res = 0
    /\ ButtonEdges(xiLog, 0) = <<ButtonPressed(0), ButtonReleased(0)>>
    /\ ButtonEdges(hidLog, 0) = <<ButtonPressed(0), ButtonReleased(0)>>

\* Report k of the log shows button b pressed.
ShowsPressed(k, b) ==
    b \in pressed_now_of(hid, effective_rid(hid, hidLog[k].rid), hidLog[k].report)

EmitsPressed(k, b) == ButtonPressed(b) \in Range(hidLog[k].out)

\* C10, as stated: a button the first report after discovery shows pressed
\* gets no ButtonPressed on that report, and gets one later only after a
\* report that showed it released.
C10_HeldButtonSilentAtFirst ==
    \A b \in ButtonIndices :
        (Len(hidLog) >= 1 /\ ShowsPressed(1, b)) =>
            /\ ~EmitsPressed(1, b)
            /\ \A k \in DOMAIN hidLog :
                   EmitsPressed(k, b) => \E j \in 1..(k - 1) : ~ShowsPressed(j, b)

\* C10, amended: a button the first report after discovery shows pressed gets
\* a ButtonPressed on that report; on any report, a ButtonPressed is emitted
\* for a button exactly when the report shows it pressed and it is the first
\* report or the report before it did not show it pressed.
C10_HeldButtonPressedAtFirst ==
    \A b \in ButtonIndices :
        /\ (Len(hidLog) >= 1 /\ ShowsPressed(1, b)) => EmitsPressed(1, b)
        /\ \A k \in DOMAIN hidLog :
               EmitsPressed(k, b) <=>
                   (ShowsPressed(k, b) /\ (k = 1 \/ ~ShowsPressed(k - 1, b)))

\* Button 0 was down in the first two reports, up in the third and down again
\* in the fourth: a ButtonPressed on the first and on the fourth report only.
C10_Witness ==
    /\ Len(hidLog) = 4
    /\ ShowsPressed(1, 0) /\ ShowsPressed(2, 0) /\ ~ShowsPressed(3, 0) /\ ShowsPressed(4, 0)
    /\ EmitsPressed(1, 0) /\ ~EmitsPressed(2, 0) /\ EmitsPressed(4, 0)

(***************************************************************************)
(* A specification for the conversion functions of the two backends: Init  *)
(* draws one input for one function; the step applies the function, emits  *)
(* the event the backend builds from the result, and the manager that      *)
(* holds the device polls it.                                              *)
(***************************************************************************)
\* const AXIS_NAMES, BUTTON_NAMES (XInputDevice::describe)
AXIS_NAMES == <<"LX", "LY", "RX", "RY", "LT", "RT">>
BUTTON_NAMES == <<"A", "B", "X", "Y", "LB", "RB", "Back", "Start", "LThumb", "RThumb">>

\* fn XInputDevice::describe
XInputDevice_describe ==
       [i \in 1..MAX_AXES |-> ChannelDesc("Axis", i - 1, AXIS_NAMES[i], -1, 1)]
    \o [i \in 1..Len(BUTTON_NAMES) |-> ChannelDesc("Button", i - 1, BUTTON_NAMES[i], 0, 1)]
    \o <<ChannelDesc("Hat", 0, "DPad", -1, 7)>>

\* The two devices the manager holds: a HID stick with one axis and one hat,
\* and an XInput pad. Their polls are driven by the steps below.
FnHid == [id |-> "H", name |-> "Stick", bus |-> "usb",
          desc  |-> <<ChannelDesc("Axis", 0, "X", 0, 255),
                      ChannelDesc("Hat", 0, "Hat", 0, 7)>>,
          emits |-> {}]
FnPad == [id |-> "X", name |-> "Pad", bus |-> "xinput",
          desc  |-> XInputDevice_describe, emits |-> {}]

\* Raw hat values (HidP_GetUsageValue as i32) and logical ranges: slots 0..7,
\* slots 1..8, degrees, signed degrees, and an inverted range.
\* The raw hat values run from -MaxHatRawBelow to MaxHatRaw.
MaxHatRawBelow == 185
MaxHatRaw == 365
HatRaws == ((-MaxHatRawBelow)..MaxHatRaw) \cup {65535}
HatRanges == {<<0, 7>>, <<1, 8>>, <<0, 315>>, <<0, 360>>, <<-180, 180>>, <<7, 0>>,
              <<0, 65535>>}
DPadBits == {"DPAD_UP", "DPAD_DOWN", "DPAD_LEFT", "DPAD_RIGHT"}

\* The value caps classify_hat is applied to: hat and X usages of the Generic
\* Desktop page and of the Button page, with the hat ranges and two more
\* ranges that end at 7 or 8.
ClassifyInputs ==
    {[fn |-> "classify_hat", usage_page |-> up, usage |-> u, lo |-> r[1], hi |-> r[2]] :
        up \in {1, 9}, u \in {48, 57}, r \in HatRanges \cup {<<0, 8>>, <<1, 7>>}}

\* Raw axis values and logical ranges: unsigned, signed, empty (min = max) and
\* inverted ranges.
\* The raw axis values run from -MaxAxisRawBelow to MaxAxisRaw.
MaxAxisRawBelow == 130
MaxAxisRaw == 260
AxisRaws == (-MaxAxisRawBelow)..MaxAxisRaw
AxisRanges == {<<0, 255>>, <<-128, 127>>, <<0, 3>>, <<5, 5>>, <<0, 0>>, <<10, -10>>}

\* sThumb* values: every ThumbStep-th i16, and the values around 0 and the ends.
ThumbStep == 64
I16_MIN == -32768
I16_MAX == 32767
ThumbRaws == {I16_MIN + ThumbStep * k : k \in 0..((I16_MAX - I16_MIN) \div ThumbStep)}
                 \cup {I16_MAX, I16_MAX - 1, I16_MIN + 1, -1, 1}
U8_MAX == 255
TriggerRaws == 0..U8_MAX

FnInputs ==
         {[fn |-> "hat_value_to_slot", raw |-> raw, lo |-> r[1], hi |-> r[2],
           is_degrees |-> d] : raw \in HatRaws, r \in HatRanges, d \in BOOLEAN}
    \cup {[fn |-> "compute_hat", buttons |-> b] : b \in SUBSET DPadBits}
    \cup {[fn |-> "normalize_axis_value", v |-> v, lo |-> r[1], hi |-> r[2]] :
             v \in AxisRaws, r \in AxisRanges}
    \cup {[fn |-> "normalize_thumb", axis |-> a, v |-> v] : a \in 0..3, v \in ThumbRaws}
    \cup {[fn |-> "normalize_trigger", axis |-> a, v |-> v] : a \in 4..5, v \in TriggerRaws}
    \cup ClassifyInputs

InitFn ==
    /\ LET m == from_devices(<<FnHid, FnPad>>)
       IN  /\ devices = m.devices /\ labels = m.labels /\ states = m.states
           /\ infos = m.infos /\ descs = m.descs /\ injected = m.injected
           /\ pre = m
    /\ op = "input" /\ arg \in FnInputs /\ ret = <<>>
    /\ snap = NoSnap /\ mgrLog = <<>>
    /\ IdleHid /\ IdleXi

\* The device `id` returns `events` from its poll, the other device nothing,
\* and Manager::poll_events applies them; ret keeps the events emitted.
Emit(fn, id, events) ==
    LET polled == IF id = "H" THEN <<events, <<>>>> ELSE <<<<>>, events>>
        r      == poll_events(Self, polled)
    IN  /\ devices' = r.mgr.devices /\ labels' = r.mgr.labels /\ states' = r.mgr.states
        /\ infos' = r.mgr.infos /\ descs' = r.mgr.descs /\ injected' = r.mgr.injected
        /\ op' = fn /\ ret' = events /\ pre' = Self
        /\ UNCHANGED <<arg, snap, mgrLog, hidVars, xiVars>>

\* WinHidpParser::parse, hat branch: slot = hat_value_to_slot(..), HatChanged.
ApplyHatValueToSlot ==
    /\ op = "input" /\ arg.fn = "hat_value_to_slot"
    /\ Emit(arg.fn, "H",
            <<HatChanged(0, hat_value_to_slot(arg.raw, arg.lo, arg.hi, arg.is_degrees))>>)

\* XInputDevice::poll, hat: hat = compute_hat(buttons), HatChanged.
ApplyComputeHat ==
    /\ op = "input" /\ arg.fn = "compute_hat"
    /\ Emit(arg.fn, "X", <<HatChanged(0, compute_hat(arg.buttons))>>)

\* WinHidpParser::parse, axis branch: v = normalize_axis_value(..), AxisMoved.
ApplyNormalizeAxisValue ==
    /\ op = "input" /\ arg.fn = "normalize_axis_value"
    /\ Emit(arg.fn, "H", <<AxisMoved(0, normalize_axis_value(arg.v, arg.lo, arg.hi))>>)

\* XInputDevice::poll, axes 0..3: normalize_thumb, negated for LY and RY.
ApplyNormalizeThumb ==
    /\ op = "input" /\ arg.fn = "normalize_thumb"
    /\ Emit(arg.fn, "X",
            <<AxisMoved(arg.axis, IF arg.axis \in {1, 3} THEN -normalize_thumb(arg.v)
                                                         ELSE normalize_thumb(arg.v))>>)

\* XInputDevice::poll, axes 4..5: normalize_trigger.
ApplyNormalizeTrigger ==
    /\ op = "input" /\ arg.fn = "normalize_trigger"
    /\ Emit(arg.fn, "X", <<AxisMoved(arg.axis, normalize_trigger(arg.v))>>)

\* WinHidpParser::new, per value usage: classify_hat(up, u, logical_min,
\* logical_max); nothing is emitted.
ApplyClassifyHat ==
    /\ op = "input" /\ arg.fn = "classify_hat"
    /\ op' = arg.fn
    /\ ret' = classify_hat(arg.usage_page, arg.usage, arg.lo, arg.hi)
    /\ pre' = Self
    /\ UNCHANGED <<mgrVars, arg, snap, mgrLog, hidVars, xiVars>>

NextFn ==
    \/ ApplyClassifyHat
    \/ ApplyHatValueToSlot
    \/ ApplyComputeHat
    \/ ApplyNormalizeAxisValue
    \/ ApplyNormalizeThumb
    \/ ApplyNormalizeTrigger

SpecFn == InitFn /\ [][NextFn]_vars

(***************************************************************************)
(* Properties of the conversion functions (SpecFn).                        *)
(***************************************************************************)
HatSlots == {-1, 0, 1, 2, 3, 4, 5, 6, 7}

\* C12: every HatChanged built from hat_value_to_slot (HID) or compute_hat
\* (XInput) carries a value in {-1, 0, .., 7}, whatever the raw value, the
\* logical range, the degrees flag and the DPad bits; and every hat value in
\* the manager's DeviceStates is in that set.
C12_HatValuesAreSlots ==
    /\ op \in {"hat_value_to_slot", "compute_hat"} =>
           \A k \in DOMAIN ret : ret[k].t = "HatChanged" /\ ret[k].value \in HatSlots
    /\ \A id \in DOMAIN states : \A h \in DOMAIN states[id].hats :
           states[id].hats[h] \in HatSlots

\* A hat in signed degrees at -90 came out as slot 6 (left) and was stored.
C12_Witness ==
    /\ op = "hat_value_to_slot" /\ arg.raw = -90 /\ arg.lo = -180 /\ arg.is_degrees
    /\ ret = <<HatChanged(0, 6)>> /\ states["H"].hats["Hat"] = 6

\* C13: every AxisMoved built from normalize_axis_value, normalize_thumb or
\* normalize_trigger carries a value in [-1, 1]; normalize_axis_value gives 0
\* when logical_min = logical_max; a thumb value of -32768 gives -1 and 32767
\* gives 1, with the sign reversed on the Y axes; a trigger value of 0 gives
\* -1 and 255 gives 1.
C13_AxisValuesInUnitRange ==
    op \in {"normalize_axis_value", "normalize_thumb", "normalize_trigger"} =>
        LET value == ret[1].value
            sign  == IF op = "normalize_thumb" /\ arg.axis \in {1, 3} THEN -1 ELSE 1
        IN  /\ ret[1].t = "AxisMoved"
            /\ -AxisScale <= value /\ value <= AxisScale
            /\ op = "normalize_axis_value" /\ arg.lo = arg.hi => value = 0
            /\ op = "normalize_thumb" /\ arg.v = I16_MIN => value = sign * (-AxisScale)
            /\ op = "normalize_thumb" /\ arg.v = I16_MAX => value = sign * AxisScale
            /\ op = "normalize_trigger" /\ arg.v = 0 => value = -AxisScale
            /\ op = "normalize_trigger" /\ arg.v = U8_MAX => value = AxisScale

\* A raw value above the logical maximum was clamped to 1.
C13_Witness ==
    /\ op = "normalize_axis_value" /\ arg.v = 260 /\ arg.lo = 0 /\ arg.hi = 255
    /\ ret = <<AxisMoved(0, AxisScale)>>

(***************************************************************************)
(* Channel descriptors of the HID parser, and a specification in which the *)
(* parser is also built for a descriptor with repeated caps.               *)
(***************************************************************************)
\* format!("{:#04x}", n): "0x" and at least two hex digits.
HexPrefixed(n) ==
    "0x" \o (IF n >= 4096 THEN HexDigits[((n \div 4096) % 16) + 1] ELSE "")
         \o (IF n >= 256 THEN HexDigits[((n \div 256) % 16) + 1] ELSE "")
         \o HexDigits[((n \div 16) % 16) + 1] \o HexDigits[(n % 16) + 1]

\* fn usage_name(usage_page, usage) -> Option<String>; always Some.
usage_name(usage_page, usage) ==
    IF usage_page = 1
    THEN CASE usage = 48 -> "X"      [] usage = 49 -> "Y"    [] usage = 50 -> "Z"
           [] usage = 51 -> "Rx"     [] usage = 52 -> "Ry"   [] usage = 53 -> "Rz"
           [] usage = 54 -> "Slider" [] usage = 55 -> "Dial" [] usage = 56 -> "Wheel"
           [] usage = 57 -> "Hat"
           [] OTHER -> "GD_" \o HexPrefixed(usage)
    ELSE IF usage_page = 2
    THEN CASE usage = 0 -> "SimAxis"  [] usage = 176 -> "Accelerator"
           [] usage = 177 -> "Brake"  [] usage = 178 -> "Clutch"
           [] usage = 187 -> "Throttle"
           [] OTHER -> "Sim"
    ELSE IF (usage_page \div 256) % 256 = 255 THEN "VendorAxis"
    ELSE "UP_" \o Hex4(usage_page) \o "_U_" \o Hex4(usage)

\* Option::unwrap_or
unwrap_or(o, d) == IF o = None THEN d ELSE o[1]

\* Mutant of describe_hats: the hats are left out.
describe_hats_omitted(p) == <<>>

\* describe, the hats loop.
describe_hats(p) ==
    [k \in 1..Len(p.hat_fields_by_index) |->
        LET v == p.values[p.hat_fields_by_index[k]]
        IN  ChannelDesc("Hat", unwrap_or(v.hat_index, 0), "Hat", 0, 7)]

\* fn WinHidpParser::describe: axes, then hats, then buttons by index.
WinHidpParser_describe(p) ==
       [k \in 1..Len(p.axis_fields_by_index) |->
           LET v == p.values[p.axis_fields_by_index[k]]
           IN  ChannelDesc("Axis", unwrap_or(v.axis_index, 0),
                           usage_name(v.usage_page, v.usage),
                           v.logical_min, v.logical_max)]
    \o describe_hats(p)
    \o [k \in 1..Len(p.buttons_by_index) |->
           ChannelDesc("Button", k - 1,
                       usage_name(p.buttons_by_index[k][2], p.buttons_by_index[k][3]),
                       0, 1)]

\* A descriptor that repeats itself: usage 2 of the button page is declared
\* by a range and again on its own, the X axis is declared twice, the hat
\* reports degrees, and one value cap has usage page 0 (which
\* normalize_values drops).
OddInfo ==
    [open_ok |-> TRUE, ppd_ok |-> TRUE, caps_ok |-> TRUE,
     vendor_id |-> 1103, product_id |-> 46108, InputReportByteLength |-> 8,
     btn_caps |-> Some(<<ButtonCapRange(0, 9, 0, 1, 2), ButtonCap(0, 9, 0, 2)>>),
     val_caps |-> Some(<<ValueCap(0, 1, 0, 48, 0, 240), ValueCap(0, 1, 0, 48, 0, 240),
                         ValueCap(0, 0, 0, 1, 0, 1), ValueCap(0, 1, 0, 57, 0, 315)>>)]

DescInfos == HidInfos \cup {OddInfo}

InitDesc ==
    /\ IdleMgr
    /\ \E info \in DescInfos : hid = WinHidpParser_new(info)
    /\ hidLog = <<>>
    /\ hidQueue = <<>>
    /\ xi = XInputDevice_new
    /\ xiLog = <<>>

SpecDesc == InitDesc /\ [][NextDev]_vars

\* The (kind, idx) an event refers to.
ChannelOf(ev) ==
    CASE ev.t = "AxisMoved"      -> <<"Axis", ev.axis>>
      [] ev.t = "ButtonPressed"  -> <<"Button", ev.button>>
      [] ev.t = "ButtonReleased" -> <<"Button", ev.button>>
      [] ev.t = "HatChanged"     -> <<"Hat", ev.hat>>

\* Every event of the log refers to a channel of the descriptor list ds.
Described(log, ds) ==
    LET evs == AllEvents(log)
    IN  \A k \in DOMAIN evs : DescExists(ds, ChannelOf(evs[k])[1], ChannelOf(evs[k])[2])

UniqueChannels(ds) ==
    \A i, j \in DOMAIN ds : (ds[i].kind = ds[j].kind /\ ds[i].idx = ds[j].idx) => i = j

\* C14: every event the HID parser or the XInput device has returned refers
\* to a (kind, idx) listed by the device's describe(); no (kind, idx) is
\* listed twice; and no parse or poll changes what describe() returns.
C14_EventsMatchDescribe ==
    /\ [](/\ Described(hidLog, WinHidpParser_describe(hid))
          /\ Described(xiLog, XInputDevice_describe)
          /\ UniqueChannels(WinHidpParser_describe(hid))
          /\ UniqueChannels(XInputDevice_describe))
    /\ [][WinHidpParser_describe(hid') = WinHidpParser_describe(hid)]_vars

\* The parser built from the repeating descriptor has returned a press of
\* button 2 (the usage declared twice), a hat change and an axis move; the
\* XInput device has returned events as well.
C14_Witness ==
    /\ Len(hid.buttons_by_index) = 3
    /\ ButtonPressed(2) \in Range(AllEvents(hidLog))
    /\ \E v \in HatSlots : HatChanged(0, v) \in Range(AllEvents(hidLog))
    /\ \E e \in Range(AllEvents(hidLog)) : e.t = "AxisMoved" /\ e.axis = 1
    /\ AllEvents(xiLog) # <<>>

(***************************************************************************)
(* HidInputDevice (src/src/backends/windows/hid_device.rs).  hidQueue is   *)
(* what the OS holds for the non-blocking handle: raw.read returns the     *)
(* oldest report, Ok(0) when there is none, or an error.  A report in the  *)
(* queue is the decoded content of its bytes together with its first byte. *)
(***************************************************************************)
\* const MAX_REPORTS_PER_TICK: usize = 32
MAX_REPORTS_PER_TICK == 32

\* Mutant of drain_limit_reached: the drain is never cut short.
drain_limit_never(drained) == FALSE

\* if drained >= MAX_REPORTS_PER_TICK { break; }
drain_limit_reached(drained) == drained >= MAX_REPORTS_PER_TICK

\* Mutant of on_read_error: the events decoded so far are dropped.
on_read_error_discard(acc) == [acc EXCEPT !.events = <<>>]

\* Err(e) => { eprintln!(..); break; }
on_read_error(acc) == acc

\* fn split_report_windows(data) -> (report_id, payload), for non-empty data.
split_report_windows(item) == <<item.rid, item>>

\* The order in which parse iterates the HashSet last_pressed_buttons:
\* ascending or descending (every order when it holds at most two indices).
IterOrder(S, descending) ==
    LET a == Ascending(S)
    IN  IF descending THEN [k \in DOMAIN a |-> a[Len(a) + 1 - k]] ELSE a

\* The loop of HidInputDevice::poll.  acc = [p, queue, events, parsed, reads]:
\* the parser, the OS queue, the events pushed, the reports handed to the
\* parser and the results of the reads made.  fail_at is the read of this call
\* that returns Err (0: none).
RECURSIVE hid_poll_loop(_, _, _, _)
hid_poll_loop(acc, drained, fail_at, descending) ==
    IF drain_limit_reached(drained) THEN acc
    ELSE IF Len(acc.reads) + 1 = fail_at
    THEN on_read_error([acc EXCEPT !.reads = Append(@, "Err")])
    ELSE IF acc.queue = <<>>
    THEN [acc EXCEPT !.reads = Append(@, "Ok(0)")]
    ELSE LET item      == Head(acc.queue)
             report_id == IF expects_report_id_prefix(acc.p)
                          THEN split_report_windows(item)[1] ELSE 0
             r         == parse(acc.p, report_id, item,
                                IterOrder(acc.p.last_pressed_buttons, descending))
         IN  hid_poll_loop([p      |-> r.p,
                            queue  |-> Tail(acc.queue),
                            events |-> acc.events \o r.out,
                            parsed |-> Append(acc.parsed, item),
                            reads  |-> Append(acc.reads, "Ok(n)")],
                           drained + 1, fail_at, descending)

\* fn HidInputDevice::poll(&mut self) -> Vec<InputKind>
hid_poll(p, queue, fail_at, descending) ==
    hid_poll_loop([p |-> p, queue |-> queue, events |-> <<>>, parsed |-> <<>>,
                   reads |-> <<>>], 0, fail_at, descending)

(***************************************************************************)
(* A specification for the HID device inside a manager: the manager holds  *)
(* the HID device and a second device, reports arrive at the OS queue, the *)
(* host forwards key presses and calls Manager::poll_events.               *)
(***************************************************************************)
\* The HidInputDevice as the manager sees it; describe() is the parser's.
HidDevOf(info) ==
    [id |-> "H", name |-> "Stick", bus |-> "usb",
     desc |-> WinHidpParser_describe(WinHidpParser_new(info)), emits |-> {}]

\* Two input reports: button 1 down, and no button down.
RepDown == HidReport(1, "SUCCESS", {<<9, 1, 0>>}, 120, 1, 8)
RepUp   == HidReport(1, "SUCCESS", {}, 121, 1, 8)

\* What arrives at once: one report, or more reports than one poll drains
\* (the button held for MAX_REPORTS_PER_TICK reports, then let go).
LongBurst == [k \in 1..(MAX_REPORTS_PER_TICK + 1) |->
                 IF k <= MAX_REPORTS_PER_TICK THEN RepDown ELSE RepUp]
Bursts == {<<RepDown>>, <<RepUp>>, LongBurst}

\* Reports arrive while fewer than MaxPending are waiting.
MaxPending == 1
\* The read of a poll that can fail: none (0), or one of the first MaxFailAt.
MaxFailAt == 2
FailPoints == 0..MaxFailAt

InitHid ==
    /\ \E info \in HidInfos :
           LET m == from_devices(<<HidDevOf(info), DevB>>)
           IN  /\ hid = WinHidpParser_new(info)
               /\ devices = m.devices /\ labels = m.labels /\ states = m.states
               /\ infos = m.infos /\ descs = m.descs /\ injected = m.injected
               /\ op = "from_devices" /\ arg = <<HidDevOf(info), DevB>> /\ ret = "Ok"
               /\ pre = m
    /\ snap = NoSnap /\ mgrLog = <<>>
    /\ hidLog = <<>> /\ hidQueue = <<>>
    /\ IdleXi

\* The device sends reports; the OS queues them.
HidArrive ==
    /\ Len(hidQueue) < MaxPending
    /\ \E burst \in Bursts :
           /\ hidQueue' = hidQueue \o burst
           /\ op' = "report_arrives" /\ arg' = burst /\ ret' = "()" /\ pre' = Self
    /\ UNCHANGED <<mgrVars, snap, mgrLog, hid, hidLog, xiVars>>

\* Manager::poll_events: devices[0] is the HidInputDevice, whose poll drains
\* the OS queue; devices[1] returns `other`.  The reports hold at most one
\* button down, so last_pressed_buttons has one iteration order.
PollEventsHid ==
    \E fail_at \in FailPoints : \E other \in SeqsUpTo(DevB.emits, 1) :
    \E h \in {hid_poll(hid, hidQueue, fail_at, FALSE)} :
        LET polled == <<h.events, other>>
            r      == poll_events(Self, polled)
        IN  /\ Observe("poll_events",
                       [polled |-> polled, parser |-> hid, queue |-> hidQueue],
                       [out |-> r.out, reads |-> h.reads, parsed |-> h.parsed],
                       r.mgr)
            /\ hid' = h.p
            /\ hidQueue' = h.queue
            /\ UNCHANGED <<snap, mgrLog, hidLog, xiVars>>

\* Manager::handle_wm_input with a key press, while the queue is empty.
HandleWmInputHid ==
    /\ injected = <<>>
    /\ LET m == handle_wm_input(Self, KeyboardPacket(FALSE))
       IN  Observe("handle_wm_input", KeyboardPacket(FALSE), "()", m)
    /\ UNCHANGED <<snap, mgrLog, hidVars, xiVars>>

NextHid ==
    \/ HidArrive
    \/ PollEventsHid
    \/ HandleWmInputHid

SpecHid == InitHid /\ [][NextHid]_vars

(***************************************************************************)
(* Properties of HidInputDevice::poll inside Manager::poll_events (SpecHid).*)
(* After a poll, arg.queue is the OS queue and arg.parser the parser as    *)
(* they were before the call, ret.reads the results of the reads made,     *)
(* ret.parsed the reports handed to the parser, hidQueue what is left.     *)
(***************************************************************************)
\* The events the parser p pushes for the reports, parsed one after another.
RECURSIVE ParseAll(_, _)
ParseAll(p, reports) ==
    IF reports = <<>> THEN <<>>
    ELSE LET r == parse(p, IF expects_report_id_prefix(p) THEN Head(reports).rid ELSE 0,
                        Head(reports), Ascending(p.last_pressed_buttons))
         IN  r.out \o ParseAll(r.p, Tail(reports))

Min(a, b) == IF a <= b THEN a ELSE b

PairsOf(id, events) == [k \in DOMAIN events |-> <<id, events[k]>>]

\* C15: a poll makes at most 32 reads and hands at most 32 reports to the
\* parser, however many are waiting; a read that returns no report is the
\* last read of the call; the reports handed over are the oldest waiting
\* ones, in order, and the others are still queued in their order; without a
\* read error the poll takes every waiting report up to 32.
C15_PollDrainsAtMost32 ==
    op = "poll_events" =>
        /\ Len(ret.reads) <= MAX_REPORTS_PER_TICK
        /\ Len(ret.parsed) <= MAX_REPORTS_PER_TICK
        /\ \A k \in DOMAIN ret.reads : ret.reads[k] # "Ok(n)" => k = Len(ret.reads)
        /\ Len(ret.parsed) = Cardinality({k \in DOMAIN ret.reads : ret.reads[k] = "Ok(n)"})
        /\ arg.queue = ret.parsed \o hidQueue
        /\ "Err" \notin Range(ret.reads) =>
               Len(ret.parsed) = Min(Len(arg.queue), MAX_REPORTS_PER_TICK)

\* 33 reports were waiting: the poll parsed the first 32 and the last one,
\* the release of the button, is still queued.
C15_Witness ==
    /\ op = "poll_events"
    /\ arg.queue = LongBurst
    /\ Len(ret.parsed) = MAX_REPORTS_PER_TICK
    /\ hidQueue = <<RepUp>>

\* C16: when a read of the HID device fails, the reports read before it in
\* the same call have been parsed and their events are returned by
\* poll_events, followed by the events of the other device and by the
\* injected events; the queue of injected events is empty afterwards; the
\* manager keeps its devices; and every poll_events, whatever happened
\* before, reads the HID device at least once.
C16_ReadErrorKeepsEarlierEvents ==
    op = "poll_events" =>
        /\ Len(ret.reads) >= 1
        /\ devices = pre.devices /\ infos = pre.infos
        /\ "Err" \in Range(ret.reads) =>
               /\ ret.parsed = SubSeq(arg.queue, 1, Len(ret.reads) - 1)
               /\ arg.polled[1] = ParseAll(arg.parser, ret.parsed)
               /\ ret.out = PairsOf("H", arg.polled[1]) \o PairsOf("B", arg.polled[2])
                                \o pre.injected
               /\ injected = <<>>

\* The second read failed: the press decoded from the first report, the hat
\* change of the other device and the injected key press were all returned,
\* and reports are still waiting.
C16_Witness ==
    /\ op = "poll_events"
    /\ ret.reads = <<"Ok(n)", "Err">>
    /\ ret.parsed = <<RepDown>>
    /\ <<"H", ButtonPressed(0)>> \in Range(ret.out)
    /\ <<"B", HatChanged(0, 2)>> \in Range(ret.out)
    /\ <<"rawkbd:0x1a", ButtonPressed(30)>> \in Range(ret.out)
    /\ hidQueue # <<>>

(***************************************************************************)
(* Properties of raw-input injection (SpecRaw).                            *)
(***************************************************************************)
IsEdge(ev) == ev.t \in {"ButtonPressed", "ButtonReleased"}

\* The button indices that occur in the poll log.
MgrLoggedButtons == {mgrLog[k][2].button : k \in {j \in DOMAIN mgrLog : IsEdge(mgrLog[j][2])}}

\* The ButtonPressed / ButtonReleased events the polls returned for button b
\* of device id, in order.
MgrButtonEdges(id, b) ==
    LET sel == SelectSeq(mgrLog,
                   LAMBDA p : p[1] = id /\ IsEdge(p[2]) /\ p[2].button = b)
    IN  [k \in DOMAIN sel |-> sel[k][2]]

\* C11: for every device id the manager lists, and every button, the
\* ButtonPressed / ButtonReleased events returned by the successive
\* poll_events calls alternate, the first being a ButtonPressed.
C11_ManagedButtonEdgesAlternate ==
    \A id \in IdsOf(infos) : \A b \in MgrLoggedButtons :
        Alternates(MgrButtonEdges(id, b))

KbdId == "rawkbd:0x1a"
KeyA == <<KbdId, ButtonPressed(30)>>

\* C17: a make packet of scancode 0x1E, not extended, from a keyboard the
\* manager does not list yet makes the manager list it (bus rawinput) with
\* one button channel, index 0x001E, labelled key_001e, whose state is false,
\* and queues the press; a poll_events that starts with just this press
\* queued for the registered keyboard returns exactly that one pair and
\* leaves key_001e true; and the index registered for any keyboard packet is
\* the scancode in bits 0..14 with the extended flag in bit 15.
C17_KeyboardRegisteredLazily ==
    /\ (op = "handle_wm_input" /\ arg = KeyboardPacket(FALSE)
            /\ KbdId \notin IdsOf(pre.infos)) =>
           /\ \E i \in DOMAIN devices_of(Self) :
                  devices_of(Self)[i].id = KbdId /\ devices_of(Self)[i].bus = "rawinput"
           /\ channels(Self, KbdId) = <<ChannelDesc("Button", 30, "key_001e", 0, 1)>>
           /\ DOMAIN labels[KbdId].buttons = {30}
           /\ labels[KbdId].buttons[30] = "key_001e"
           /\ DOMAIN states[KbdId].buttons = {"key_001e"}
           /\ states[KbdId].buttons["key_001e"] = FALSE
           /\ injected = Append(pre.injected, KeyA)
    /\ (op = "poll_events" /\ pre.injected = <<KeyA>> /\ KbdId \in IdsOf(pre.infos)) =>
           /\ ret = <<KeyA>>
           /\ states[KbdId].buttons["key_001e"] = TRUE
    /\ (op = "handle_wm_input" /\ arg.kind = "Keyboard") =>
           LET idx == injected[Len(injected)][2].button
           IN  /\ idx % 32768 = arg.scancode % 32768
               /\ idx \div 32768 = (IF arg.is_extended THEN 1 ELSE 0)
               /\ DescExists(descs[KbdId], "Button", idx)

\* The keyboard was registered by the press of key 0x1E alone (key_001e
\* false), and the poll that followed returned the one pair and set it.
C17_Witness ==
    /\ op = "poll_events"
    /\ pre.injected = <<KeyA>>
    /\ pre.states[KbdId].buttons = [key_001e |-> FALSE]
    /\ ret = <<KeyA>>
    /\ states[KbdId].buttons["key_001e"] = TRUE

MouseId == "M"

\* The shape a mouse is registered with.
MouseShape ==
    <<ChannelDesc("Axis", 0, "dx", -32768, 32767),
      ChannelDesc("Axis", 1, "dy", -32768, 32767),
      ChannelDesc("Axis", 2, "wheel", -32768, 32767),
      ChannelDesc("Axis", 3, "hwheel", -32768, 32767),
      ChannelDesc("Button", 0, "lmb", 0, 1), ChannelDesc("Button", 1, "rmb", 0, 1),
      ChannelDesc("Button", 2, "mmb", 0, 1), ChannelDesc("Button", 3, "x1", 0, 1),
      ChannelDesc("Button", 4, "x2", 0, 1)>>

\* The events a mouse packet must queue, each with the condition under which
\* it is queued: the four deltas, then for button b the DOWN bit 2b and the
\* UP bit 2b + 1 of the flags.
MouseCandidates(pkt) ==
       <<[on |-> pkt.dx # 0, ev |-> AxisMoved(0, AxisScale * pkt.dx)],
         [on |-> pkt.dy # 0, ev |-> AxisMoved(1, AxisScale * pkt.dy)],
         [on |-> pkt.wheel_delta # 0, ev |-> AxisMoved(2, pkt.wheel_delta)],
         [on |-> pkt.hwheel_delta # 0, ev |-> AxisMoved(3, pkt.hwheel_delta)]>>
    \o [k \in 1..10 |->
           [on |-> (pkt.buttons_flags \div (2 ^ (k - 1))) % 2 = 1,
            ev |-> IF k % 2 = 1 THEN ButtonPressed((k - 1) \div 2)
                                ELSE ButtonReleased((k - 1) \div 2)]]

MouseExpected(pkt) ==
    LET sel == SelectSeq(MouseCandidates(pkt), LAMBDA c : c.on)
    IN  [k \in DOMAIN sel |-> <<MouseId, sel[k].ev>>]

\* C18: after a mouse packet the mouse is listed with bus rawinput and has
\* the fixed shape (axes 0..3 dx, dy, wheel, hwheel; buttons 0..4) in its
\* descriptors, labels and state keys, and the queue has grown by exactly:
\* an AxisMoved for each non-zero delta in the order dx, dy, wheel, hwheel
\* (dx, dy as counts, the wheels as delta / 120; with AxisScale = 120 the
\* wheel value in model units is the delta itself), then for buttons 0..4 a
\* ButtonPressed if the DOWN bit is set followed by a ButtonReleased if the UP
\* bit is set.
C18_MousePacketShapeAndEvents ==
    (op = "handle_wm_input" /\ arg.kind = "Mouse") =>
        /\ \E i \in DOMAIN infos : infos[i].id = MouseId /\ infos[i].bus = "rawinput"
        /\ descs[MouseId] = MouseShape
        /\ DOMAIN labels[MouseId].axes = 0..3 /\ DOMAIN labels[MouseId].buttons = 0..4
        /\ \A d \in Range(MouseShape) :
               /\ d.kind = "Axis" => labels[MouseId].axes[d.idx] = d.name
               /\ d.kind = "Button" => labels[MouseId].buttons[d.idx] = d.name
        /\ DOMAIN states[MouseId].axes = {"dx", "dy", "wheel", "hwheel"}
        /\ DOMAIN states[MouseId].buttons = {"lmb", "rmb", "mmb", "x1", "x2"}
        /\ injected = pre.injected \o MouseExpected(arg)

\* The packet with dy, wheel and hwheel (and no dx, no flags) queued three
\* axis events: dy = -2 counts, wheel = 1 tick, hwheel = -2 ticks.
C18_Witness ==
    /\ op = "handle_wm_input"
    /\ arg = MousePacketOf(0, -2, 120, -240, 0)
    /\ injected = pre.injected \o <<<<MouseId, AxisMoved(1, -2 * AxisScale)>>,
                                     <<MouseId, AxisMoved(2, AxisScale)>>,
                                     <<MouseId, AxisMoved(3, -2 * AxisScale)>>>>

(***************************************************************************)
(* BindingProfile::resolve (src/src/binding.rs).  f32 values are in units  *)
(* of 1 / AxisScale; divisions round toward zero, the exponent of a power  *)
(* curve is a whole number and sqrt is the integer square root, so results *)
(* can differ from the f32 ones in the last unit.                          *)
(***************************************************************************)
\* Mutant of get_axis: a missing axis reads as 1.0.
get_axis_missing_one(st, name) == GetOr(st.axes, name, AxisScale)

\* fn DeviceState::get_axis: 0.0 if missing
get_axis(st, name) == GetOr(st.axes, name, 0)

\* fn DeviceState::get_button: false if missing
get_button(st, name) == GetOr(st.buttons, name, FALSE)

\* f32::signum: 1.0 for +0.0 and above, -1.0 below.
signum(x) == IF x >= 0 THEN 1 ELSE -1

\* a * b on values in units of 1 / AxisScale.
MulUnits(a, b) == signum(a) * signum(b) * ((Abs(a) * Abs(b)) \div AxisScale)

Clamp(v, lo, hi) == IF v < lo THEN lo ELSE IF v > hi THEN hi ELSE v

\* v.abs().powf(g) for a whole exponent g >= 1
RECURSIVE PowUnits(_, _)
PowUnits(a, g) == IF g <= 1 THEN a ELSE MulUnits(PowUnits(a, g - 1), a)

\* f32::sqrt of a value in squared units
ISqrt(n) == CHOOSE r \in 0..n : r * r <= n /\ n < (r + 1) * (r + 1)

\* AxisTransform::default(): deadzone 0.05, gain 1.0, Power { gamma: 1.0 },
\* range [-1, 1]
AxisTransform_default ==
    [invert |-> FALSE, deadzone |-> 6, gain |-> AxisScale,
     curve |-> [t |-> "Power", gamma |-> 1], min |-> -AxisScale, max |-> AxisScale]

\* Mutant of AxisTransform_apply: the clamp comes before the gain.
AxisTransform_apply_clamp_first(xf, x) ==
    LET dz == Clamp(xf.deadzone, 0, 114)
        v1 == IF Abs(x) <= dz THEN 0
              ELSE signum(x) * (((Abs(x) - dz) * AxisScale) \div (AxisScale - dz))
        v2 == IF xf.invert THEN -v1 ELSE v1
        v3 == IF xf.curve.t = "Linear" THEN v2
              ELSE signum(v2) * PowUnits(Abs(v2), xf.curve.gamma)
        lo == IF xf.min <= xf.max THEN xf.min ELSE xf.max
        hi == IF xf.min <= xf.max THEN xf.max ELSE xf.min
    IN  MulUnits(Clamp(v3, lo, hi), xf.gain)

\* pub fn AxisTransform::apply(&self, x: f32) -> f32
AxisTransform_apply(xf, x) ==
    LET dz == Clamp(xf.deadzone, 0, 114)
        v1 == IF Abs(x) <= dz THEN 0
              ELSE signum(x) * (((Abs(x) - dz) * AxisScale) \div (AxisScale - dz))
        v2 == IF xf.invert THEN -v1 ELSE v1
        v3 == IF xf.curve.t = "Linear" THEN v2
              ELSE signum(v2) * PowUnits(Abs(v2), xf.curve.gamma)
        v4 == MulUnits(v3, xf.gain)
        lo == IF xf.min <= xf.max THEN xf.min ELSE xf.max
        hi == IF xf.min <= xf.max THEN xf.max ELSE xf.min
    IN  Clamp(v4, lo, hi)

\* resolve: the value read for a control of a present device.
read_control(st, control) ==
    IF control.control_type = "Axis" THEN get_axis(st, control.control_id)
    ELSE IF get_button(st, control.control_id) THEN AxisScale ELSE 0

\* resolve, Button rule: thr = axis_press_threshold.unwrap_or(0.5).abs().min(0.99);
\* on whole units, |axis| >= min(|t|, 0.99) is |axis| >= min(|t|, 119 / 120).
button_pressed(st, rule) ==
    IF rule.control.control_type = "Button"
    THEN get_button(st, rule.control.control_id)
    ELSE LET t   == Abs(unwrap_or(rule.axis_press_threshold, 60))
             thr == IF t >= 119 THEN 119 ELSE t
         IN  Abs(get_axis(st, rule.control.control_id)) >= thr

\* x * k for a factor k in units of 1 / (AxisScale * AxisScale), rounded to
\* the nearest unit.
MulFine(x, k) ==
    signum(x) * ((Abs(x) * k + (AxisScale * AxisScale) \div 2) \div (AxisScale * AxisScale))

\* Mutant of radial_scale: the vector is scaled by t, not by t / r.
radial_scale_by_t(x, y, dz) ==
    LET r == ISqrt(x * x + y * y)
        t == ((r - dz) * AxisScale * AxisScale) \div (AxisScale - dz)
    IN  IF x * x + y * y <= dz * dz THEN <<0, 0>>
        ELSE <<MulFine(x, t), MulFine(y, t)>>

\* resolve, Axis2d rule, `if *radial_deadzone { .. }` after dz is computed.
\* r is the square root rounded down to a whole unit; r <= dz is decided on
\* the squares, where it is exact; the factors t and k are kept in units of
\* 1 / (AxisScale * AxisScale).
radial_scale(x, y, dz) ==
    LET r == ISqrt(x * x + y * y)
        t == ((r - dz) * AxisScale * AxisScale) \div (AxisScale - dz)
        k == (t * AxisScale) \div r
    IN  IF x * x + y * y <= dz * dz THEN <<0, 0>>
        ELSE IF r > 0 THEN <<MulFine(x, k), MulFine(y, k)>>
        ELSE <<x, y>>

\* resolve, Axis2d rule: the [x, y] written for the action.
axis2d_value(st, rule) ==
    LET x  == AxisTransform_apply(rule.xform_x, read_control(st, rule.control.x))
        y  == AxisTransform_apply(rule.xform_y, read_control(st, rule.control.y))
        dz == IF Abs(rule.radial_deadzone_size) >= 114 THEN 114
              ELSE Abs(rule.radial_deadzone_size)
    IN  IF ~rule.radial_deadzone THEN <<x, y>> ELSE radial_scale(x, y, dz)

\* Mutant of BindingOutput_default: the output starts as the one of the
\* resolve before.
BindingOutput_carried ==
    IF ret = <<>> THEN [axis |-> EmptyMap, buttons |-> EmptyMap, vec2 |-> EmptyMap]
    ELSE ret[Len(ret)].out

\* BindingOutput::default()
BindingOutput_default == [axis |-> EmptyMap, buttons |-> EmptyMap, vec2 |-> EmptyMap]

\* resolve: one iteration of `for rule in &self.bindings`.
resolve_rule(out, rule, devs) ==
    IF rule.device_id \notin DOMAIN devs THEN out
    ELSE LET st == devs[rule.device_id]
         IN  CASE rule.kind = "axis1d" ->
                    [out EXCEPT !.axis =
                        Put(@, rule.action,
                            AxisTransform_apply(rule.xform, read_control(st, rule.control)))]
               [] rule.kind = "button" ->
                    [out EXCEPT !.buttons = Put(@, rule.action, button_pressed(st, rule))]
               [] rule.kind = "axis2d" ->
                    [out EXCEPT !.vec2 = Put(@, rule.action, axis2d_value(st, rule))]

RECURSIVE resolve_loop(_, _, _, _)
resolve_loop(out, bindings, i, devs) ==
    IF i > Len(bindings) THEN out
    ELSE resolve_loop(resolve_rule(out, bindings[i], devs), bindings, i + 1, devs)

\* pub fn BindingProfile::resolve(&self, devices) -> BindingOutput
resolve(profile, devs) == resolve_loop(BindingOutput_default, profile.bindings, 1, devs)

(***************************************************************************)
(* Specification SpecBind: a host holds one BindingProfile and a device    *)
(* map, replaces the device map between frames and calls resolve.  `arg`   *)
(* holds the two inputs and `ret` every call made so far, oldest first.    *)
(***************************************************************************)
ControlPath(id, type) == [control_id |-> id, control_type |-> type]

Axis1d(device_id, control, action, xform) ==
    [kind |-> "axis1d", device_id |-> device_id, control |-> control,
     action |-> action, xform |-> xform]

Button(device_id, control, action, axis_press_threshold) ==
    [kind |-> "button", device_id |-> device_id, control |-> control,
     action |-> action, axis_press_threshold |-> axis_press_threshold]

Axis2d(device_id, x, y, action, xform_x, xform_y, radial_deadzone, size) ==
    [kind |-> "axis2d", device_id |-> device_id, control |-> [x |-> x, y |-> y],
     action |-> action, xform_x |-> xform_x, xform_y |-> xform_y,
     radial_deadzone |-> radial_deadzone, radial_deadzone_size |-> size]

BindingProfile(bindings) ==
    [version |-> 1, name |-> "p", description |-> None, bindings |-> bindings]

\* An inverted quadratic transform without deadzone whose range excludes 0.
XformSquared ==
    [invert |-> TRUE, deadzone |-> 0, gain |-> 2 * AxisScale,
     curve |-> [t |-> "Power", gamma |-> 2], min |-> AxisScale, max |-> 24]

XformLinear == [AxisTransform_default EXCEPT !.curve = [t |-> "Linear"], !.deadzone = 60]

\* Profiles of the model: rules for device "A" and for a device "B" that is
\* in only one of the device maps, rules that share an action, and axis and
\* button controls behind each kind of rule.
BindProfiles ==
    { BindingProfile(<<>>),
      BindingProfile(<<Axis1d("A", ControlPath("X", "Axis"), "steer", AxisTransform_default),
                       Axis1d("B", ControlPath("X", "Axis"), "steer", XformLinear)>>),
      BindingProfile(<<Axis1d("B", ControlPath("X", "Axis"), "steer", AxisTransform_default),
                       Button("A", ControlPath("fire", "Button"), "fire", None),
                       Button("B", ControlPath("fire", "Button"), "fire", None)>>),
      BindingProfile(<<Button("A", ControlPath("X", "Axis"), "boost", None),
                       Button("A", ControlPath("Y", "Axis"), "any", Some(0)),
                       Button("A", ControlPath("X", "Axis"), "full", Some(-2 * AxisScale))>>),
      BindingProfile(<<Axis1d("A", ControlPath("fire", "Button"), "trigger", XformSquared),
                       Axis1d("A", ControlPath("Y", "Axis"), "lift", XformSquared)>>),
      BindingProfile(<<Axis2d("A", ControlPath("X", "Axis"), ControlPath("Y", "Axis"), "stick",
                              XformLinear, AxisTransform_default, TRUE, 12),
                       Axis2d("B", ControlPath("X", "Axis"), ControlPath("fire", "Button"),
                              "stick", AxisTransform_default, AxisTransform_default, FALSE, 0)>>) }

DeviceStateOf(axes, buttons) == [axes |-> axes, buttons |-> buttons, hats |-> EmptyMap]

\* Device maps of the model: no device, "A" without controls, "A" with
\* controls, and "A" and "B" together.
BindDeviceMaps ==
    { EmptyMap,
      "A" :> DeviceStateOf(EmptyMap, EmptyMap),
      "A" :> DeviceStateOf("X" :> 90, "fire" :> TRUE),
      "A" :> DeviceStateOf(("X" :> -AxisScale) @@ ("Y" :> 63), "fire" :> FALSE),
      ("A" :> DeviceStateOf("X" :> 30, EmptyMap))
          @@ ("B" :> DeviceStateOf("X" :> AxisScale, "fire" :> TRUE)) }

\* Most resolve calls in one behaviour.
MaxResolves == 3

InitBind ==
    /\ devices = <<>> /\ labels = EmptyMap /\ states = EmptyMap
    /\ infos = <<>> /\ descs = EmptyMap /\ injected = <<>>
    /\ pre = Mgr(<<>>, EmptyMap, EmptyMap, <<>>, EmptyMap, <<>>)
    /\ snap = NoSnap /\ mgrLog = <<>>
    /\ op = "input"
    /\ arg \in [profile : BindProfiles, devices : BindDeviceMaps]
    /\ ret = <<>>
    /\ IdleHid /\ IdleXi

\* let out = profile.resolve(&devices): both arguments are shared references.
Resolve ==
    /\ Len(ret) < MaxResolves
    /\ op' = "resolve"
    /\ ret' = Append(ret, [profile |-> arg.profile, devices |-> arg.devices,
                           out |-> resolve(arg.profile, arg.devices)])
    /\ UNCHANGED <<mgrVars, arg, pre, snap, mgrLog, hidVars, xiVars>>

\* The host builds the device map of the next frame.
SetDevices ==
    \E d \in BindDeviceMaps \ {arg.devices} :
        /\ op' = "set_devices"
        /\ arg' = [arg EXCEPT !.devices = d]
        /\ UNCHANGED <<mgrVars, ret, pre, snap, mgrLog, hidVars, xiVars>>

NextBind == Resolve \/ SetDevices

SpecBind == InitBind /\ [][NextBind]_vars

(***************************************************************************)
(* Properties of BindingProfile::resolve (specification SpecBind).         *)
(***************************************************************************)
\* The rules of a profile whose device is in the device map.
PresentRules(profile, devs) ==
    SelectSeq(profile.bindings, LAMBDA r : r.device_id \in DOMAIN devs)

\* The controls a rule reads.
ControlsOf(rule) ==
    IF rule.kind = "axis2d" THEN {rule.control.x, rule.control.y} ELSE {rule.control}

\* The controls of one type that the rules of a profile read on device id.
ControlIds(profile, id, type) ==
    { c.control_id : c \in { c \in UNION { ControlsOf(profile.bindings[i]) :
                                            i \in { j \in DOMAIN profile.bindings :
                                                       profile.bindings[j].device_id = id } } :
                              c.control_type = type } }

\* The device map with every control the profile reads and the device lacks
\* written as 0.0 (axis) or false (button).
FillControls(profile, devs) ==
    [id \in DOMAIN devs |->
        [devs[id] EXCEPT
            !.axes = [n \in DOMAIN @ \cup ControlIds(profile, id, "Axis") |->
                          IF n \in DOMAIN @ THEN @[n] ELSE 0],
            !.buttons = [n \in DOMAIN @ \cup ControlIds(profile, id, "Button") |->
                          IF n \in DOMAIN @ THEN @[n] ELSE FALSE]]]

\* The actions of the rules of one kind whose device is in the device map.
WrittenActions(profile, devs, kind) ==
    { profile.bindings[i].action :
        i \in { j \in DOMAIN profile.bindings :
                   /\ profile.bindings[j].kind = kind
                   /\ profile.bindings[j].device_id \in DOMAIN devs } }

\* C19: in every resolve call, the rules whose device_id is not in the device
\* map contribute nothing: the output is the one of the profile without
\* them, so a value an earlier rule wrote for the same action is kept and no
\* key is added; every rule whose device is present writes its action key
\* whether or not its control exists; and a missing control is read as 0.0
\* (axis) or false (button): the output is the one for the device map in
\* which the missing controls hold these values.
C19_AbsentDeviceSkippedMissingControlDefault ==
    \A i \in DOMAIN ret :
        LET e == ret[i]
        IN  /\ e.out = resolve([e.profile EXCEPT
                                   !.bindings = PresentRules(e.profile, e.devices)],
                               e.devices)
            /\ DOMAIN e.out.axis = WrittenActions(e.profile, e.devices, "axis1d")
            /\ DOMAIN e.out.buttons = WrittenActions(e.profile, e.devices, "button")
            /\ DOMAIN e.out.vec2 = WrittenActions(e.profile, e.devices, "axis2d")
            /\ e.out = resolve(e.profile, FillControls(e.profile, e.devices))

\* A resolve of the profile whose second "steer" rule names the absent
\* device "B", on a device "A" that has no axis "X": "steer" is 0.0.
C19_Witness ==
    \E i \in DOMAIN ret :
        /\ ret[i].devices = ("A" :> DeviceStateOf(EmptyMap, EmptyMap))
        /\ Len(ret[i].profile.bindings) = 2
        /\ ret[i].profile.bindings[1].device_id = "A"
        /\ ret[i].profile.bindings[2].device_id = "B"
        /\ ret[i].profile.bindings[2].action = "steer"
        /\ ret[i].out.axis = ("steer" :> 0)

XformIdentity ==
    [invert |-> FALSE, deadzone |-> 0, gain |-> AxisScale,
     curve |-> [t |-> "Linear"], min |-> -AxisScale, max |-> AxisScale]

\* Transforms of the model: the identity, the default, deadzones below 0 and
\* above 0.95, gains above 1 and below 0 with a narrow range, a quadratic
\* curve, and min > max.
Xforms ==
    { XformIdentity, AxisTransform_default, XformLinear, XformSquared,
      [XformIdentity EXCEPT !.deadzone = 118, !.invert = TRUE],
      [XformIdentity EXCEPT !.deadzone = -10, !.gain = 3 * AxisScale,
                            !.min = -60, !.max = 90],
      [AxisTransform_default EXCEPT !.gain = -AxisScale \div 2,
                                    !.curve = [t |-> "Power", gamma |-> 2]] }

\* Largest |x| given to apply (1.25 in units of 1 / AxisScale).
MaxXfInput == 150

\* Axis values of the device given to an Axis2d rule, among them the legs of
\* the right triangles (36, 48, 60) and (72, 96, 120).
StickValues == {-AxisScale, -96, -72, -36, 0, 7, 24, 36, 48, 60, 72, 96, AxisScale}

\* radial_deadzone_size: 0, 0.1, 0.25, 0.3, -0.5 and 0.98 (above the 0.95 cap).
RadialSizes == {0, 12, 30, 36, -60, 118}

\* Per-axis transforms of the Axis2d rules, <<xform_x, xform_y>>.
StickXforms ==
    { <<XformIdentity, XformIdentity>>,
      <<AxisTransform_default, AxisTransform_default>>,
      <<XformLinear, [XformIdentity EXCEPT !.invert = TRUE]>> }

XfInputs ==
    [fn : {"apply"}, xf : Xforms, x : (-MaxXfInput)..MaxXfInput]
    \cup
    { [fn |-> "axis2d",
       rule |-> Axis2d("A", ControlPath("X", "Axis"), ControlPath("Y", "Axis"), "stick",
                       xf[1], xf[2], radial, size),
       st |-> DeviceStateOf(("X" :> x) @@ ("Y" :> y), EmptyMap)] :
        xf \in StickXforms, radial \in BOOLEAN, size \in RadialSizes,
        x \in StickValues, y \in StickValues }

InitXf ==
    /\ devices = <<>> /\ labels = EmptyMap /\ states = EmptyMap
    /\ infos = <<>> /\ descs = EmptyMap /\ injected = <<>>
    /\ pre = Mgr(<<>>, EmptyMap, EmptyMap, <<>>, EmptyMap, <<>>)
    /\ snap = NoSnap /\ mgrLog = <<>>
    /\ op = "input" /\ arg \in XfInputs /\ ret = <<>>
    /\ IdleHid /\ IdleXi

\* let v = xform.apply(raw)
ApplyAxisTransform ==
    /\ op = "input" /\ arg.fn = "apply"
    /\ op' = "apply"
    /\ ret' = AxisTransform_apply(arg.xf, arg.x)
    /\ UNCHANGED <<mgrVars, arg, pre, snap, mgrLog, hidVars, xiVars>>

\* profile.resolve(&devices) for a profile of one Axis2d rule and a device
\* map holding its device.
ResolveAxis2d ==
    /\ op = "input" /\ arg.fn = "axis2d"
    /\ op' = "axis2d"
    /\ ret' = resolve(BindingProfile(<<arg.rule>>), "A" :> arg.st)
    /\ UNCHANGED <<mgrVars, arg, pre, snap, mgrLog, hidVars, xiVars>>

NextXf == ApplyAxisTransform \/ ResolveAxis2d

SpecXf == InitXf /\ [][NextXf]_vars

(***************************************************************************)
(* Properties of AxisTransform::apply (specification SpecXf).              *)
(***************************************************************************)
\* The five steps as the documentation of AxisTransform states them.
StepDeadzone(xf, x) ==
    LET dz == IF xf.deadzone < 0 THEN 0 ELSE IF xf.deadzone > 114 THEN 114 ELSE xf.deadzone
    IN  IF Abs(x) <= dz THEN 0
        ELSE (IF x < 0 THEN -1 ELSE 1) * (((Abs(x) - dz) * AxisScale) \div (AxisScale - dz))
StepInvert(xf, v) == IF xf.invert THEN -v ELSE v
StepCurve(xf, v) ==
    IF xf.curve.t = "Linear" \/ xf.curve.gamma = 1 THEN v
    ELSE (IF v < 0 THEN -1 ELSE 1) * PowUnits(Abs(v), xf.curve.gamma)
StepGain(xf, v) ==
    (IF (v < 0) = (xf.gain < 0) THEN 1 ELSE -1) * ((Abs(v) * Abs(xf.gain)) \div AxisScale)
StepClamp(xf, v) ==
    LET lo == Min(xf.min, xf.max)
        hi == Max(xf.min, xf.max)
    IN  IF v < lo THEN lo ELSE IF v > hi THEN hi ELSE v

\* C21: apply is deadzone (dz = clamp(deadzone, 0, 0.95); |x| <= dz gives 0,
\* otherwise sign(x) * (|x| - dz) / (1 - dz)), then invert, then curve, then
\* gain, then clamp; the result lies in [min(min, max), max(min, max)]; and
\* the transform with invert=false, deadzone=0, Linear, gain=1, range
\* [-1, 1] returns every x of [-1, 1] unchanged.
C21_ApplyPipelineOrderAndRange ==
    (op = "apply") =>
        /\ ret = StepClamp(arg.xf,
                    StepGain(arg.xf,
                      StepCurve(arg.xf, StepInvert(arg.xf, StepDeadzone(arg.xf, arg.x)))))
        /\ Min(arg.xf.min, arg.xf.max) <= ret
        /\ ret <= Max(arg.xf.min, arg.xf.max)
        /\ (arg.xf = XformIdentity /\ Abs(arg.x) <= AxisScale) => ret = arg.x

\* A gain of 3 on x = 0.5 with range [-0.5, 0.75]: the product 1.5 is
\* clamped to 0.75.
C21_Witness ==
    /\ op = "apply"
    /\ arg.xf.gain = 3 * AxisScale /\ arg.x = 60
    /\ ret = 90

(***************************************************************************)
(* Properties of the Axis2d rule (specification SpecXf).                   *)
(***************************************************************************)
\* The two per-axis pipeline outputs of the Axis2d input in `arg`.
PipelineX == AxisTransform_apply(arg.rule.xform_x, get_axis(arg.st, "X"))
PipelineY == AxisTransform_apply(arg.rule.xform_y, get_axis(arg.st, "Y"))

\* dz = min(|radial_deadzone_size|, 0.95)
RadialDz == Min(Abs(arg.rule.radial_deadzone_size), 114)

\* v is within one unit of x * (r - dz) / ((1 - dz) * r), with r the length
\* of (x, y) rounded down, and is not on the other side of 0.
ScaledLike(v, x, r, dz) ==
    /\ Abs(v * (AxisScale - dz) * r - x * (r - dz) * AxisScale)
           <= (AxisScale - dz) * r
    /\ v * x >= 0

\* C22: for an Axis2d rule with radial_deadzone, (x, y) the two per-axis
\* outputs, r their length and dz = min(|radial_deadzone_size|, 0.95): the
\* output is (0, 0) if r <= dz and otherwise (x, y) scaled by
\* (r - dz) / ((1 - dz) * r), exactly so where r and the quotients are whole
\* units; without radial_deadzone the output is (x, y).
C22_RadialDeadzoneScaling ==
    (op = "axis2d") =>
        LET x   == PipelineX
            y   == PipelineY
            dz  == RadialDz
            r   == ISqrt(x * x + y * y)
            out == ret.vec2["stick"]
        IN  /\ DOMAIN ret.vec2 = {"stick"}
            /\ ~arg.rule.radial_deadzone => out = <<x, y>>
            /\ (arg.rule.radial_deadzone /\ x * x + y * y <= dz * dz) => out = <<0, 0>>
            /\ (arg.rule.radial_deadzone /\ x * x + y * y > dz * dz) =>
                   /\ ScaledLike(out[1], x, r, dz)
                   /\ ScaledLike(out[2], y, r, dz)
                   /\ (/\ r * r = x * x + y * y
                       /\ (x * (r - dz) * AxisScale) % ((AxisScale - dz) * r) = 0
                       /\ (y * (r - dz) * AxisScale) % ((AxisScale - dz) * r) = 0)
                      => /\ out[1] * (AxisScale - dz) * r = x * (r - dz) * AxisScale
                         /\ out[2] * (AxisScale - dz) * r = y * (r - dz) * AxisScale

\* (0.3, 0.4) has length 0.5; with a radial deadzone of 0.25 it is scaled by
\* (0.5 - 0.25) / (0.75 * 0.5) = 2/3 to (0.2, 0.2666..).
C22_Witness ==
    /\ op = "axis2d"
    /\ arg.rule.radial_deadzone /\ arg.rule.radial_deadzone_size = 30
    /\ PipelineX = 36 /\ PipelineY = 48
    /\ ret.vec2["stick"] = <<24, 32>>

\* The Axis2d rule of `arg` with the deadzone of both per-axis transforms
\* replaced by d.
WithAxisDeadzones(rule, d) ==
    [rule EXCEPT !.xform_x.deadzone = d, !.xform_y.deadzone = d]

\* C30: for an Axis2d rule with radial_deadzone = true the deadzone fields of
\* xform_x and xform_y have no effect: the output is the one the same rule
\* gives with both per-axis deadzones set to 0.
C30_PerAxisDeadzoneUnusedWhenRadial ==
    (op = "axis2d" /\ arg.rule.radial_deadzone) =>
        ret = resolve(BindingProfile(<<WithAxisDeadzones(arg.rule, 0)>>), "A" :> arg.st)

(***************************************************************************)
(* Specification SpecXi: a Manager that owns one XInputDevice; every poll  *)
(* of the manager polls the device, whose slot the OS reports connected or *)
(* not.  `arg` holds what XInputGetState returned and the device as it was *)
(* before the poll.                                                        *)
(***************************************************************************)
XiResults ==
    XInputResults \cup
    { [res |-> 0, gp |-> Gamepad({"A", "DPAD_UP"}, -32768, 255)],
      [res |-> 0, gp |-> Gamepad({"B", "DPAD_UP", "DPAD_RIGHT"}, 32767, 0)],
      [res |-> 0, gp |-> Gamepad({"A", "START"}, 16384, 128)],
      [res |-> 0, gp |-> Gamepad({"DPAD_LEFT"}, 0, 255)],
      [res |-> 0, gp |-> Gamepad({"A", "RIGHT_THUMB", "DPAD_DOWN"}, 20, 0)] }

InitXi ==
    /\ LET m == from_devices(<<FnPad>>)
       IN  /\ devices = m.devices /\ labels = m.labels /\ states = m.states
           /\ infos = m.infos /\ descs = m.descs /\ injected = m.injected
           /\ op = "from_devices" /\ arg = <<FnPad>> /\ ret = "Ok"
           /\ pre = m
    /\ snap = NoSnap /\ mgrLog = <<>>
    /\ IdleHid
    /\ xi = XInputDevice_new /\ xiLog = <<>>

\* Manager::poll_events, with Device::poll of the XInput device inside it.
PollEventsXi ==
    \E s \in XiResults : \E d \in {xinput_poll(xi, s.res, s.gp)} :
        LET r == poll_events(Self, <<d.events>>)
        IN  /\ Observe("poll_events", [res |-> s.res, gp |-> s.gp, dev |-> xi],
                       [out |-> r.out], r.mgr)
            /\ xi' = d.dev
            /\ UNCHANGED <<snap, mgrLog, hidVars, xiLog>>

NextXi == PollEventsXi

SpecXi == InitXi /\ [][NextXi]_vars

(***************************************************************************)
(* Properties of XInput disconnection (specification SpecXi).              *)
(***************************************************************************)
\* The XInput button bit behind button index b.
MaskOfButton(b) == (CHOOSE k \in DOMAIN BUTTON_MAP : BUTTON_MAP[k][2] = b)

\* Event ev reports a channel whose value in gp differs from the one the
\* device remembered.
ReportsDifference(ev, remembered, gp) ==
    CASE ev.t = "AxisMoved" -> ev.value # remembered.last_axes[ev.axis + 1]
      [] ev.t = "ButtonPressed" ->
            /\ BUTTON_MAP[MaskOfButton(ev.button)][1] \in gp.wButtons
            /\ BUTTON_MAP[MaskOfButton(ev.button)][1] \notin remembered.last_buttons
      [] ev.t = "ButtonReleased" ->
            /\ BUTTON_MAP[MaskOfButton(ev.button)][1] \notin gp.wButtons
            /\ BUTTON_MAP[MaskOfButton(ev.button)][1] \in remembered.last_buttons
      [] ev.t = "HatChanged" ->
            /\ ev.value = compute_hat(gp.wButtons)
            /\ ev.value # remembered.last_hat

\* C23: a poll on a disconnected slot returns no events, leaves the
\* remembered axes, buttons and hat of the device as they were and leaves
\* the Manager's states unchanged; the first poll after the slot is back
\* returns events only for channels whose value differs from the remembered
\* one.
C23_DisconnectKeepsStateReconnectEmitsDiff ==
    (op = "poll_events") =>
        /\ (arg.res # 0) =>
               /\ ret.out = <<>>
               /\ xi.last_axes = arg.dev.last_axes
               /\ xi.last_buttons = arg.dev.last_buttons
               /\ xi.last_hat = arg.dev.last_hat
               /\ ~xi.connected
               /\ states = pre.states
        /\ (arg.res = 0 /\ ~arg.dev.connected) =>
               \A k \in DOMAIN ret.out :
                   /\ ret.out[k][1] = "X"
                   /\ ReportsDifference(ret.out[k][2], arg.dev, arg.gp)

\* A poll on a disconnected slot while the device remembers A pressed and
\* the hat up: the Manager still shows both.
C23_Witness ==
    /\ op = "poll_events" /\ arg.res # 0
    /\ arg.dev.connected
    /\ "A" \in xi.last_buttons /\ xi.last_hat = 0
    /\ states["X"].buttons["A"] /\ states["X"].hats["DPad"] = 0

(***************************************************************************)
(* A specification of the value and button decoding of one parser: a       *)
(* descriptor without report ids, with two button caps on different usage  *)
(* pages, the X axis (0..1023, in link collection 1), the Y axis (0..240)  *)
(* and a slot hat (0..7).  The reports differ in what the OS answers for   *)
(* each cap.                                                               *)
(***************************************************************************)
ValInfo ==
    [open_ok |-> TRUE, ppd_ok |-> TRUE, caps_ok |-> TRUE,
     vendor_id |-> 1133, product_id |-> 49685, InputReportByteLength |-> 8,
     btn_caps |-> Some(<<ButtonCapRange(0, 9, 0, 1, 2), ButtonCap(0, 12, 0, 5)>>),
     val_caps |-> Some(<<ValueCap(0, 1, 1, 48, 0, 1023), ValueCap(0, 1, 0, 49, 0, 240),
                         ValueCap(0, 1, 0, 57, 0, 7)>>)]

\* A report: the pages whose HidP_GetUsages fails, the usages that are down,
\* and the raw values HidP_GetUsageValue finds (x < 0: the X axis is not in
\* the report; xlc: the link collection the OS files the X axis under).
ValReport(fail_pages, down, x, xlc, y, hat) ==
    [rid |-> 0, usages_status |-> "SUCCESS", fail_pages |-> fail_pages, down |-> down,
     values |-> (IF x < 0 THEN EmptyMap ELSE (<<1, 48>> :> [lc |-> xlc, raw |-> x]))
                @@ (<<1, 49>> :> [lc |-> 0, raw |-> y])
                @@ (<<1, 57>> :> [lc |-> 0, raw |-> hat])]

ValReports ==
    { ValReport({}, {}, 512, 1, 120, 0),
      ValReport({}, {<<9, 1, 0>>}, 513, 1, 120, 7),
      ValReport({}, {<<9, 1, 0>>, <<12, 5, 0>>}, 520, 1, 121, 8),
      ValReport({9}, {<<9, 1, 0>>, <<12, 5, 0>>}, 520, 1, 121, 7),
      ValReport({9}, {<<9, 2, 0>>}, 514, 1, 120, 0),
      ValReport({}, {}, 516, 2, 120, 8),
      ValReport({}, {<<9, 2, 0>>}, -1, 0, 121, 7) }

MaxParses == 4

InitVal ==
    /\ IdleMgr
    /\ hid = WinHidpParser_new(ValInfo)
    /\ hidLog = <<>>
    /\ hidQueue = <<>>
    /\ xi = XInputDevice_new
    /\ xiLog = <<>>

\* One call of ReportParser::parse on the parser; arg keeps the parser as
\* it was before the call.
ValParse ==
    /\ Len(hidLog) < MaxParses
    /\ \E report \in ValReports : \E order \in Orders(hid.last_pressed_buttons) :
           LET r == parse(hid, report.rid, report, order)
           IN  /\ hid' = r.p
               /\ hidLog' = Append(hidLog, [rid |-> report.rid, report |-> report,
                                            out |-> r.out])
               /\ op' = "parse"
               /\ arg' = [report |-> report, before |-> hid]
               /\ ret' = r.out
    /\ UNCHANGED <<mgrVars, pre, snap, mgrLog, hidQueue, xiVars>>

NextVal == ValParse

SpecVal == InitVal /\ [][NextVal]_vars

\* The two axes of ValInfo: the index new() gives them, and their range.
ValAxes ==
    { [axis |-> 0, usage |-> 48, lo |-> 0, hi |-> 1023],
      [axis |-> 1, usage |-> 49, lo |-> 0, hi |-> 240] }

\* The widest logical span over the value caps of ValInfo.
WidestSpan ==
    LET spans == {ValInfo.val_caps[1][i].LogicalMax - ValInfo.val_caps[1][i].LogicalMin :
                     i \in DOMAIN ValInfo.val_caps[1]}
    IN  CHOOSE w \in spans : \A v \in spans : v <= w

HasRaw(report, usage) == <<1, usage>> \in DOMAIN report.values
RawOf(report, usage)  ==
    IF HasRaw(report, usage) THEN report.values[<<1, usage>>].raw ELSE -1

EmitsAxis(out, a) == \E i \in DOMAIN out : out[i].t = "AxisMoved" /\ out[i].axis = a

\* |n - last| > 4 / max(widest span, 1) for the normalized values of two
\* raw values of the axis ax, n = 2 * (raw - lo) / (hi - lo) - 1.
DiffersByMoreThanEpsilon(ax, raw, last) ==
    2 * Abs(raw - last) * Max(WidestSpan, 1) > 4 * (ax.hi - ax.lo)

\* The last parse before the k-th that emitted AxisMoved for the axis (0: none).
LastEmitting(k, a) ==
    LET J == {j \in 1..(k - 1) : EmitsAxis(hidLog[j].out, a)}
    IN  IF J = {} THEN 0 ELSE CHOOSE j \in J : \A i \in J : i <= j

RawsOfLog(usage) == [k \in DOMAIN hidLog |-> RawOf(hidLog[k].report, usage)]

\* C24: the parser emits AxisMoved for an axis on the first decoded report
\* and afterwards only when the normalized value differs from the last
\* emitted one by more than 4 / max(widest logical span, 1); the remembered
\* value changes only when an event is emitted; raw 512, 513, 520 on
\* [0, 1023] emits for 512 and 520 and not for 513.
C24_AxisEmitsBeyondEpsilon ==
    /\ \A k \in DOMAIN hidLog : \A ax \in ValAxes :
           LET report == hidLog[k].report
               j      == LastEmitting(k, ax.axis)
           IN  /\ EmitsAxis(hidLog[k].out, ax.axis) <=>
                      /\ HasRaw(report, ax.usage)
                      /\ \/ j = 0
                         \/ DiffersByMoreThanEpsilon(ax, RawOf(report, ax.usage),
                                                     RawOf(hidLog[j].report, ax.usage))
               /\ \A i \in DOMAIN hidLog[k].out :
                      (hidLog[k].out[i].t = "AxisMoved" /\ hidLog[k].out[i].axis = ax.axis)
                          => hidLog[k].out[i].value =
                                 normalize_axis_value(RawOf(report, ax.usage), ax.lo, ax.hi)
    /\ op = "parse" =>
           \A ax \in ValAxes :
               ~EmitsAxis(ret, ax.axis) =>
                   /\ (ax.axis \in DOMAIN hid.last_axis_value)
                          = (ax.axis \in DOMAIN arg.before.last_axis_value)
                   /\ ax.axis \in DOMAIN hid.last_axis_value =>
                          hid.last_axis_value[ax.axis] = arg.before.last_axis_value[ax.axis]
    /\ (Len(hidLog) >= 3 /\ SubSeq(RawsOfLog(48), 1, 3) = <<512, 513, 520>>) =>
           /\ EmitsAxis(hidLog[1].out, 0)
           /\ ~EmitsAxis(hidLog[2].out, 0)
           /\ EmitsAxis(hidLog[3].out, 0)

C24_Witness ==
    /\ Len(hidLog) = 3
    /\ \A k \in 1..3 : HasRaw(hidLog[k].report, 48)
    /\ RawsOfLog(48) = <<512, 513, 520>>
    /\ EmitsAxis(hidLog[3].out, 0) /\ ~EmitsAxis(hidLog[2].out, 0)
    /\ ~EmitsAxis(hidLog[2].out, 1)

EmitsHat(out, h) == \E i \in DOMAIN out : out[i].t = "HatChanged" /\ out[i].hat = h

\* The slot of a raw value of the hat of ValInfo (slots, logical 0..7).
SlotOfRaw(raw) == IF raw \in 0..7 THEN raw ELSE -1

\* The values of the HatChanged events of the log, in order.
RECURSIVE HatValuesOf(_)
HatValuesOf(log) ==
    IF log = <<>> THEN <<>>
    ELSE LET IsHat(e) == e.t = "HatChanged"
             hs == SelectSeq(log[Len(log)].out, IsHat)
         IN  HatValuesOf(SubSeq(log, 1, Len(log) - 1)) \o [i \in DOMAIN hs |-> hs[i].value]

\* C25: the parser emits HatChanged only when the decoded slot differs from
\* the slot of the previous report, and always on the first decoded report,
\* neutral or not; raw 0, 7, 8, 7 on a slot hat emits 0, 7, -1, 7.
C25_HatEmitsOnSlotChange ==
    /\ \A k \in DOMAIN hidLog :
           LET slot == SlotOfRaw(RawOf(hidLog[k].report, 57))
               IsHat(e) == e.t = "HatChanged"
           IN  SelectSeq(hidLog[k].out, IsHat) =
                   IF k = 1 \/ slot # SlotOfRaw(RawOf(hidLog[k - 1].report, 57))
                   THEN <<HatChanged(0, slot)>> ELSE <<>>
    /\ RawsOfLog(57) = <<0, 7, 8, 7>> => HatValuesOf(hidLog) = <<0, 7, -1, 7>>

C25_Witness ==
    /\ RawsOfLog(57) = <<0, 7, 8, 7>>
    /\ HatValuesOf(hidLog) = <<0, 7, -1, 7>>

HatSentinels == {-1, 8, 15, 255, 65535}

\* floor((deg + 22.5) / 45) mod 8, on whole degrees.
DegreesSlot(deg) == ((2 * deg + 45) \div 90) % 8

\* C26: hat_value_to_slot gives -1 for a raw value outside the logical range
\* or equal to -1, 8, 15, 255 or 0xFFFF; otherwise a slot hat gives the raw
\* value if it is in 0..7 and -1 if not, and a degrees hat gives
\* floor((deg + 22.5) / 45) mod 8 (338, 359 and 22 give 0, 23 gives 1).  A
\* hat usage is slot-encoded exactly when its range is [0,7] or [1,8].
C26_HatValueToSlotAndClassify ==
    /\ op = "hat_value_to_slot" =>
           /\ ret[1].value =
                  IF arg.raw < arg.lo \/ arg.raw > arg.hi \/ arg.raw \in HatSentinels
                  THEN -1
                  ELSE IF ~arg.is_degrees
                  THEN (IF arg.raw \in 0..7 THEN arg.raw ELSE -1)
                  ELSE DegreesSlot(arg.raw)
           /\ (arg.is_degrees /\ arg.lo = 0 /\ arg.hi = 360) =>
                  /\ arg.raw \in {338, 359, 22} => ret[1].value = 0
                  /\ arg.raw = 23 => ret[1].value = 1
    /\ (op = "classify_hat" /\ arg.usage_page = 1 /\ arg.usage = 57) =>
           /\ ret[1]
           /\ ~ret[2] <=> (<<arg.lo, arg.hi>> \in {<<0, 7>>, <<1, 8>>})

\* A hat in degrees at 338 came out as slot 0 (up).
C26_Witness ==
    /\ op = "hat_value_to_slot" /\ arg.raw = 338 /\ arg.lo = 0 /\ arg.hi = 360
    /\ arg.is_degrees /\ ret = <<HatChanged(0, 0)>>

(***************************************************************************)
(* The report buffer (hid_device.rs, poll; hidp_parser.rs, parse).  A byte *)
(* is a number, a slice a sequence of bytes.  What the OS queries answer   *)
(* from the buffer is the report of the specifications above.              *)
(***************************************************************************)
\* HidInputDevice::new: buf = vec![0u8; input_report_len().unwrap_or(64)]
buf_len(p) == p.input_report_max_len

\* fn split_report_windows(data: &[u8]) -> (u8, &[u8])
split_report_windows_data(data) ==
    IF data # <<>> THEN <<data[1], SubSeq(data, 2, Len(data))>> ELSE <<0, <<>>>>

\* poll: the (report_id, payload) made of the bytes read.
poll_window(p, slice) ==
    IF expects_report_id_prefix(p) THEN split_report_windows_data(slice)
    ELSE <<0, slice>>

\* Mutant of report_body: a non-zero ctx.report_id is dropped.
report_body_drop_id(p, ctx_report_id, payload) == payload

\* parse: body.
report_body(p, ctx_report_id, payload) ==
    IF p.only_rid0 /\ ctx_report_id # 0 THEN <<ctx_report_id>> \o payload
    ELSE payload

\* parse: the buffer `report` passed to HidP_GetUsages / HidP_GetUsageValue.
report_buffer(p, ctx_report_id, payload) ==
    LET len      == Max(p.input_report_max_len, 1)
        body     == report_body(p, ctx_report_id, payload)
        copy_len == Min(Len(body), len - 1)
    IN  [i \in 1..len |->
            IF i = 1 THEN effective_rid(p, ctx_report_id)
            ELSE IF i <= 1 + copy_len THEN body[i - 1]
            ELSE 0]

(***************************************************************************)
(* A specification of the buffer: a parser of a descriptor with report ids *)
(* (PadInfo) or without (StickInfo), with an input report length of 0, 1,  *)
(* 3 or 4 bytes, is handed reads by poll and is called directly.           *)
(***************************************************************************)
BufInfos ==
    {[info EXCEPT !.InputReportByteLength = n] : info \in HidInfos, n \in {0, 1, 3, 4}}

Bytes == {0, 1, 9}
MaxPayload == 4
ByteSeqs == UNION {[1..n -> Bytes] : n \in 0..MaxPayload}

InitBuf ==
    /\ IdleMgr
    /\ \E info \in BufInfos : hid = WinHidpParser_new(info)
    /\ hidLog = <<>>
    /\ hidQueue = <<>>
    /\ xi = XInputDevice_new
    /\ xiLog = <<>>

\* poll, one read of n >= 1 bytes into buf, up to the call of parse.
PollRead ==
    /\ \E slice \in ByteSeqs :
           /\ 1 <= Len(slice) /\ Len(slice) <= buf_len(hid)
           /\ \E w \in {poll_window(hid, slice)} :
                  /\ op' = "poll"
                  /\ arg' = [bytes |-> slice]
                  /\ ret' = [report_id     |-> w[1],
                             effective_rid |-> effective_rid(hid, w[1]),
                             report        |-> report_buffer(hid, w[1], w[2])]
    /\ UNCHANGED <<mgrVars, pre, snap, mgrLog, hidVars, xiVars>>

\* parse called with any ctx.report_id and payload, up to its OS queries.
ParseBuffer ==
    /\ \E rid \in Bytes : \E payload \in ByteSeqs :
           /\ op' = "parse"
           /\ arg' = [report_id |-> rid, payload |-> payload]
           /\ ret' = [report_id     |-> rid,
                      effective_rid |-> effective_rid(hid, rid),
                      report        |-> report_buffer(hid, rid, payload)]
    /\ UNCHANGED <<mgrVars, pre, snap, mgrLog, hidVars, xiVars>>

NextBuf == PollRead \/ ParseBuffer

SpecBuf == InitBuf /\ [][NextBuf]_vars

\* The report ids the caps of the parser use.
ReportIdsOf(p) ==
    {p.buttons[i].report_id : i \in DOMAIN p.buttons}
        \cup {p.values[i].report_id : i \in DOMAIN p.values}

\* s zero-padded or truncated to n bytes.
Fit(s, n) == [i \in 1..n |-> IF i <= Len(s) THEN s[i] ELSE 0]

\* C27: for every read of N >= 1 bytes B by poll, the buffer passed to the
\* OS queries has length max(input_report_max_len, 1); it is B zero-padded
\* when the caps use a report id set other than {0}, and a 0 byte followed
\* by B, zero-padded or truncated, when they use only report id 0.  When
\* only report id 0 is used and parse is called with a non-zero
\* ctx.report_id, that byte is the first body byte and the effective id is 0.
C27_ReportBufferLayout ==
    LET len == Max(hid.input_report_max_len, 1)
    IN  /\ op = "poll" =>
               /\ Len(ret.report) = len
               /\ ReportIdsOf(hid) # {0} =>
                      /\ Len(arg.bytes) <= len
                      /\ ret.report = Fit(arg.bytes, len)
               /\ ReportIdsOf(hid) = {0} =>
                      ret.report = Fit(<<0>> \o arg.bytes, len)
        /\ (op = "parse" /\ ReportIdsOf(hid) = {0} /\ arg.report_id # 0) =>
               /\ Len(ret.report) = len
               /\ ret.effective_rid = 0
               /\ ret.report = Fit(<<0, arg.report_id>> \o arg.payload, len)

\* A device without report ids and a 4-byte report read 4 bytes: the buffer
\* is the 0 byte and the first three of them.
C27_Witness ==
    /\ op = "poll" /\ ReportIdsOf(hid) = {0} /\ hid.input_report_max_len = 4
    /\ arg.bytes = <<9, 1, 0, 9>> /\ ret.report = <<0, 9, 1, 0>>

\* What the OS answers for the value field vf queried in collection lc.
QuerySucceeds(report, vf, lc) ==
    /\ <<vf.usage_page, vf.usage>> \in DOMAIN report.values
    /\ lc = 0 \/ report.values[<<vf.usage_page, vf.usage>>].lc = lc

\* The last parse emitted for the field what a decoded value gives: for an
\* axis an AxisMoved iff no value was emitted before or the value differs by
\* more than the epsilon; for the hat a HatChanged iff the slot differs.
DecodedNormally(vf) ==
    LET k == Len(hidLog)
    IN  IF vf.is_hat
        THEN EmitsHat(ret, vf.hat_index[1]) <=>
                 (k = 1 \/ SlotOfRaw(RawOf(arg.report, vf.usage))
                               # SlotOfRaw(RawOf(hidLog[k - 1].report, vf.usage)))
        ELSE \E ax \in ValAxes :
                 /\ ax.axis = vf.axis_index[1]
                 /\ EmitsAxis(ret, ax.axis) <=>
                        \/ LastEmitting(k, ax.axis) = 0
                        \/ DiffersByMoreThanEpsilon(ax, RawOf(arg.report, ax.usage),
                               RawOf(hidLog[LastEmitting(k, ax.axis)].report, ax.usage))

\* The last parse left the field alone: no event, the same remembered value.
LeftAlone(vf) ==
    IF vf.is_hat
    THEN /\ ~EmitsHat(ret, vf.hat_index[1])
         /\ hid.last_hat_value = arg.before.last_hat_value
    ELSE /\ ~EmitsAxis(ret, vf.axis_index[1])
         /\ (vf.axis_index[1] \in DOMAIN hid.last_axis_value)
                = (vf.axis_index[1] \in DOMAIN arg.before.last_axis_value)
         /\ vf.axis_index[1] \in DOMAIN hid.last_axis_value =>
                hid.last_axis_value[vf.axis_index[1]]
                    = arg.before.last_axis_value[vf.axis_index[1]]

\* C28: a value cap whose query fails in a non-zero link collection is
\* retried once in collection 0.  If the retry succeeds the cap's
\* link_collection is 0 from then on and the value is decoded in the same
\* parse; if it fails too, or the collection was 0 already, link_collection
\* and remembered value are unchanged, nothing is emitted for the cap, and
\* the other caps of the report are still decoded.
C28_FailedValueQueryRetriedInCollection0 ==
    op = "parse" =>
        \A i \in DOMAIN arg.before.values :
            LET vf    == arg.before.values[i]
                lc    == vf.link_collection
                first == QuerySucceeds(arg.report, vf, lc)
                retry == QuerySucceeds(arg.report, vf, 0)
            IN  /\ first =>
                       /\ hid.values[i].link_collection = lc
                       /\ DecodedNormally(vf)
                /\ (~first /\ lc # 0 /\ retry) =>
                       /\ hid.values[i].link_collection = 0
                       /\ DecodedNormally(vf)
                /\ (~first /\ (lc = 0 \/ ~retry)) =>
                       /\ hid.values[i].link_collection = lc
                       /\ LeftAlone(vf)
                /\ lc = 0 => hid.values[i].link_collection = 0

\* The X axis was moved to collection 0 by an earlier retry and a report
\* without it arrives: the hat of that report is still decoded.
C28_Witness ==
    /\ op = "parse"
    /\ ValInfo.val_caps[1][1].LinkCollection = 1
    /\ arg.before.values[1].link_collection = 0
    /\ ~HasRaw(arg.report, 48)
    /\ hid.values[1].link_collection = 0
    /\ ~EmitsAxis(ret, 0) /\ EmitsHat(ret, 0)

\* The indices of the buttons of the caps of a usage page.
ButtonsOfPage(p, page) ==
    {p.button_index_by_usage[k] :
        k \in {k \in DOMAIN p.button_index_by_usage : k[2] = page}}

EmitsButton(out, b) ==
    \E i \in DOMAIN out :
        out[i].t \in {"ButtonPressed", "ButtonReleased"} /\ out[i].button = b

\* C29: when the pressed-usages query fails for a button cap, no
\* ButtonPressed or ButtonReleased is emitted for the buttons of that cap and
\* their remembered pressed state is the same after the parse as before.
C29_FailedButtonCapLeftAlone ==
    op = "parse" =>
        \A page \in arg.report.fail_pages :
            \A b \in ButtonsOfPage(hid, page) :
                /\ ~EmitsButton(ret, b)
                /\ (b \in hid.last_pressed_buttons)
                       = (b \in arg.before.last_pressed_buttons)

\* The part of the claim about the other caps: the button caps whose query
\* succeeds and the value caps are decoded in the same parse.
OtherCapsStillDecoded ==
    op = "parse" =>
        /\ \A bf \in Range(hid.buttons) :
               bf.usage_page \notin arg.report.fail_pages =>
                   \A b \in ButtonsOfPage(hid, bf.usage_page) :
                       (b \in hid.last_pressed_buttons) <=>
                           \E d \in arg.report.down :
                               /\ d[1] = bf.usage_page
                               /\ <<0, d[1], d[2], bf.link_collection>>
                                      \in DOMAIN hid.button_index_by_usage
                               /\ hid.button_index_by_usage[
                                      <<0, d[1], d[2], bf.link_collection>>] = b
        /\ \A i \in DOMAIN arg.before.values :
               QuerySucceeds(arg.report, arg.before.values[i], 0) =>
                   DecodedNormally(arg.before.values[i])

(***************************************************************************)
(* A specification of the state keys of a HID device: a manager built by   *)
(* from_devices over one HidInputDevice whose descriptor has two vendor    *)
(* axes, two hats and two buttons; each step is one report followed by     *)
(* Manager::poll_events.                                                   *)
(***************************************************************************)
LblInfo ==
    [open_ok |-> TRUE, ppd_ok |-> TRUE, caps_ok |-> TRUE,
     vendor_id |-> 1133, product_id |-> 49685, InputReportByteLength |-> 8,
     btn_caps |-> Some(<<ButtonCapRange(0, 9, 0, 1, 2)>>),
     val_caps |-> Some(<<ValueCap(0, 65280, 0, 1, 0, 240), ValueCap(0, 65280, 0, 2, 0, 240),
                         ValueCap(0, 1, 0, 57, 0, 7), ValueCap(0, 1, 0, 57, 0, 7)>>)]

\* A report: the buttons down, the raw values of the two vendor axes and of
\* the hat usage.
LblReport(down, v1, v2, hat) ==
    [rid |-> 0, usages_status |-> "SUCCESS", fail_pages |-> {}, down |-> down,
     values |-> (<<65280, 1>> :> [lc |-> 0, raw |-> v1])
                @@ (<<65280, 2>> :> [lc |-> 0, raw |-> v2])
                @@ (<<1, 57>> :> [lc |-> 0, raw |-> hat])]

LblReports ==
    { LblReport({}, 120, 120, 8),
      LblReport({<<9, 1, 0>>}, 240, 120, 0),
      LblReport({<<9, 1, 0>>, <<9, 2, 0>>}, 240, 0, 2),
      LblReport({<<9, 2, 0>>}, 0, 0, 2),
      LblReport({}, 120, 240, 8),
      LblReport({}, 0, 120, 6) }

MaxLblPolls == 3

InitLbl ==
    /\ LET m == from_devices(<<HidDevOf(LblInfo)>>)
       IN  /\ hid = WinHidpParser_new(LblInfo)
           /\ devices = m.devices /\ labels = m.labels /\ states = m.states
           /\ infos = m.infos /\ descs = m.descs /\ injected = m.injected
           /\ op = "from_devices" /\ arg = <<HidDevOf(LblInfo)>> /\ ret = "Ok"
           /\ pre = m
    /\ snap = NoSnap /\ mgrLog = <<>>
    /\ hidLog = <<>> /\ hidQueue = <<>>
    /\ IdleXi

\* One report arrives and Manager::poll_events is called: the device's poll
\* reads and parses it, the manager applies and returns the events.  mgrLog
\* keeps every (id, event) pair returned so far.
PollEventsLbl ==
    /\ Len(hidLog) < MaxLblPolls
    /\ \E report \in LblReports : \E descending \in BOOLEAN :
       \E h \in {hid_poll(hid, <<report>>, 0, descending)} :
           LET r == poll_events(Self, <<h.events>>)
           IN  /\ Observe("poll_events", [report |-> report], [out |-> r.out], r.mgr)
               /\ hid' = h.p
               /\ hidLog' = Append(hidLog, [rid |-> 0, report |-> report, out |-> h.events])
               /\ mgrLog' = mgrLog \o r.out
    /\ UNCHANGED <<snap, hidQueue, xiVars>>

NextLbl == PollEventsLbl

SpecLbl == InitLbl /\ [][NextLbl]_vars

\* The hat indices the parser assigned.
HatIndices(p) ==
    {unwrap_or(p.values[p.hat_fields_by_index[k]].hat_index, 0) :
        k \in DOMAIN p.hat_fields_by_index}

\* The value an event carries for its channel.
ValueOf(ev) ==
    CASE ev.t = "ButtonPressed"  -> TRUE
      [] ev.t = "ButtonReleased" -> FALSE
      [] OTHER                   -> ev.value

\* The positions of the events of mgrLog for the channel (kind, idx) of "H".
EventsFor(kind, idx) ==
    {i \in DOMAIN mgrLog : mgrLog[i][1] = "H" /\ ChannelOf(mgrLog[i][2]) = <<kind, idx>>}

\* The value of the most recent event for the channel, or the neutral seed.
MostRecent(kind, idx) ==
    LET I == EventsFor(kind, idx)
    IN  IF I = {} THEN NeutralOf(kind)
        ELSE ValueOf(mgrLog[CHOOSE i \in I : \A j \in I : j <= i][2])

\* C31: for a device backed by the HIDP parser the k-th hat has the state
\* key "hat<k>" after discovery, and HatChanged events for hat k update it.
C31_HidHatsKeyedHatK ==
    \A k \in HatIndices(hid) :
        /\ default_name("Hat", k) \in DOMAIN states["H"].hats
        /\ states["H"].hats[default_name("Hat", k)] = MostRecent("Hat", k)

\* C34: for every channel of the descriptor, the value stored under the
\* channel's label is the value of the most recent event for that channel
\* index (the neutral seed when there was none), and two channels of one
\* kind never share a state key, also when their descriptors carry the same
\* name.
C34_EachChannelHasItsOwnKey ==
    LET ds == descs["H"]
    IN  /\ \A i, j \in DOMAIN ds :
               (ds[i].kind = ds[j].kind /\ ds[i].idx # ds[j].idx) =>
                   LabelOf(ds[i]) # LabelOf(ds[j])
        /\ \A i \in DOMAIN ds :
               /\ LabelOf(ds[i]) \in DOMAIN SubMap(states["H"], ds[i].kind)
               /\ SubMap(states["H"], ds[i].kind)[LabelOf(ds[i])]
                      = MostRecent(ds[i].kind, ds[i].idx)

\* The second part of C34 alone: the value under a channel's label is that
\* of the channel's most recent event.
ValueIsMostRecent ==
    \A i \in DOMAIN descs["H"] :
        SubMap(states["H"], descs["H"][i].kind)[LabelOf(descs["H"][i])]
            = MostRecent(descs["H"][i].kind, descs["H"][i].idx)

(***************************************************************************)
(* A specification of the OS resources of a parser: new is called on a     *)
(* device for which any of the OS calls may fail and whose cap tables may  *)
(* be missing or empty; a parser that was built parses reports and is      *)
(* dropped.  hidLog is the list of acquisitions and releases so far, arg   *)
(* the DeviceInfo.                                                         *)
(***************************************************************************)
ResCaps(some) == {None, Some(<<>>), Some(some)}

ResInfos ==
    {[open_ok |-> o, ppd_ok |-> p, caps_ok |-> c,
      vendor_id |-> PadInfo.vendor_id, product_id |-> PadInfo.product_id,
      InputReportByteLength |-> PadInfo.InputReportByteLength,
      btn_caps |-> b, val_caps |-> v] :
        o \in BOOLEAN, p \in BOOLEAN, c \in BOOLEAN,
        b \in ResCaps(PadInfo.btn_caps[1]), v \in ResCaps(PadInfo.val_caps[1])}

MaxResParses == 2

InitRes ==
    /\ devices = <<>> /\ labels = EmptyMap /\ states = EmptyMap
    /\ infos = <<>> /\ descs = EmptyMap /\ injected = <<>>
    /\ op = "input" /\ arg \in ResInfos /\ ret = "none"
    /\ pre = Mgr(<<>>, EmptyMap, EmptyMap, <<>>, EmptyMap, <<>>)
    /\ snap = NoSnap /\ mgrLog = <<>>
    /\ IdleHid /\ IdleXi

\* WinHidpParser::new(info); ret tells whether it returned Some.
NewParser ==
    /\ op = "input"
    /\ \E p \in {WinHidpParser_new(arg)} :
           /\ hid' = p
           /\ ret' = IF new_os_calls(arg) = <<<<"acquire", OpenHandle>>, <<"acquire", OpenPpd>>>>
                     THEN "Some" ELSE "None"
    /\ hidLog' = new_os_calls(arg)
    /\ op' = "new"
    /\ UNCHANGED <<mgrVars, arg, pre, snap, mgrLog, hidQueue, xiVars>>

\* ReportParser::parse on the parser that was built.
ParseRes ==
    /\ op \in {"new", "parse"} /\ ret = "Some"
    /\ Len(mgrLog) < MaxResParses
    /\ \E report \in HidReports : \E order \in Orders(hid.last_pressed_buttons) :
           /\ hid' = parse(hid, report.rid, report, order).p
           /\ mgrLog' = Append(mgrLog, report.rid)
    /\ op' = "parse"
    /\ UNCHANGED <<mgrVars, arg, ret, pre, snap, hidLog, hidQueue, xiVars>>

\* The parser goes out of scope: Drop::drop runs once.
DropParser ==
    /\ op \in {"new", "parse"} /\ ret = "Some"
    /\ \E d \in {WinHidpParser_drop(hid)} :
           /\ hid' = d.p
           /\ hidLog' = hidLog \o d.calls
    /\ op' = "drop"
    /\ UNCHANGED <<mgrVars, arg, ret, pre, snap, mgrLog, hidQueue, xiVars>>

NextRes == NewParser \/ ParseRes \/ DropParser

SpecRes == InitRes /\ [][NextRes]_vars

\* The positions of hidLog at which the resource is acquired / released.
Acquired(res) == {i \in DOMAIN hidLog : hidLog[i] = <<"acquire", res>>}
Released(res) == {i \in DOMAIN hidLog : hidLog[i][1] # "acquire" /\ hidLog[i][2] = res}

C33_CollectionsDescribeSameDevices ==
    /\ DOMAIN snapshot(Self).snap = IdsOf(devices_of(Self))
    /\ DOMAIN descs = IdsOf(devices_of(Self))

(***************************************************************************)
(* A specification of devices that survive a rescan: a manager owning one  *)
(* HidInputDevice (descriptor StickInfo) and one XInput pad; each poll     *)
(* reads one report and one XInputGetState result; a rescan finds the same *)
(* two devices, which probe_devices() builds anew.  xiLog lists the steps. *)
(***************************************************************************)
SurviveDevs == <<HidDevOf(StickInfo), FnPad>>

SurviveReports ==
    { HidReport(0, "SUCCESS", {}, 120, 0, 8),
      HidReport(0, "SUCCESS", {<<9, 1, 0>>}, 120, 0, 8) }

SurviveResults ==
    { [res |-> 0, gp |-> Gamepad({"A"}, 0, 0)],
      [res |-> 0, gp |-> Gamepad({}, 0, 0)],
      [res |-> 1167, gp |-> Gamepad({}, 0, 0)] }

MaxSurviveSteps == 4

InitSurvive ==
    /\ LET m == from_devices(SurviveDevs)
       IN  /\ devices = m.devices /\ labels = m.labels /\ states = m.states
           /\ infos = m.infos /\ descs = m.descs /\ injected = m.injected
           /\ op = "from_devices" /\ arg = SurviveDevs /\ ret = "Ok"
           /\ pre = m
    /\ snap = NoSnap /\ mgrLog = <<>>
    /\ hid = WinHidpParser_new(StickInfo) /\ hidLog = <<>> /\ hidQueue = <<>>
    /\ xi = XInputDevice_new /\ xiLog = <<>>

\* Manager::poll_events with the polls of both devices inside it;
\* arg.after_rescan tells whether the step before was a rescan.
PollEventsSurvive ==
    /\ Len(xiLog) < MaxSurviveSteps
    /\ \E report \in SurviveReports : \E s \in SurviveResults :
       \E h \in {hid_poll(hid, <<report>>, 0, FALSE)} :
       \E d \in {xinput_poll(xi, s.res, s.gp)} :
           LET r == poll_events(Self, <<h.events, d.events>>)
           IN  /\ Observe("poll_events",
                          [report |-> report, res |-> s.res, gp |-> s.gp,
                           after_rescan |-> (op = "rescan")],
                          [out |-> r.out], r.mgr)
               /\ hid' = h.p
               /\ xi' = d.dev
    /\ xiLog' = Append(xiLog, "poll_events")
    /\ UNCHANGED <<snap, mgrLog, hidLog, hidQueue>>

\* Manager::rescan: probe_devices() returns the two devices again, each a
\* new object (WinHidpParser::new, XInputDevice::new).
RescanSurvive ==
    /\ Len(xiLog) < MaxSurviveSteps
    /\ LET r == rescan(Self, SurviveDevs)
       IN  Observe("rescan", SurviveDevs, r.report, r.mgr)
    /\ hid' = WinHidpParser_new(StickInfo)
    /\ xi' = XInputDevice_new
    /\ xiLog' = Append(xiLog, "rescan")
    /\ UNCHANGED <<snap, mgrLog, hidLog, hidQueue>>

NextSurvive == PollEventsSurvive \/ RescanSurvive

SpecSurvive == InitSurvive /\ [][NextSurvive]_vars

\* C35: once the first report (HID) or first connected poll (XInput) after
\* a rescan has been processed by poll_events, the manager's state of every
\* button of a surviving device is the pressed state that report carries.
C35_ButtonsFollowFirstReportAfterRescan ==
    (op = "poll_events" /\ arg.after_rescan) =>
        /\ \A u \in {1, 2} :
               states["H"].buttons[usage_name(9, u)] = (<<9, u, 0>> \in arg.report.down)
        /\ arg.res = 0 =>
               \A k \in DOMAIN BUTTON_MAP :
                   states["X"].buttons[BUTTON_NAMES[BUTTON_MAP[k][2] + 1]]
                       = (BUTTON_MAP[k][1] \in arg.gp.wButtons)

\* The HID half and the XInput half of C35 on their own.
HidButtonsFollowFirstReport ==
    (op = "poll_events" /\ arg.after_rescan) =>
        \A u \in {1, 2} :
            states["H"].buttons[usage_name(9, u)] = (<<9, u, 0>> \in arg.report.down)

XInputButtonsFollowFirstPoll ==
    (op = "poll_events" /\ arg.after_rescan /\ arg.res = 0) =>
        \A k \in DOMAIN BUTTON_MAP :
            states["X"].buttons[BUTTON_NAMES[BUTTON_MAP[k][2] + 1]]
                = (BUTTON_MAP[k][1] \in arg.gp.wButtons)

(***************************************************************************)
(* Buttons of a device with several report ids (SpecDev, descriptor        *)
(* PadInfo: buttons 1..2 in report 1, button 3 in report 2).               *)
(***************************************************************************)
\* The non-zero report ids of the parser's button fields.
ButtonReportIds(p) == {bf.report_id : bf \in Range(p.buttons)} \ {0}

\* The button indices whose cap belongs to report id rid.
ButtonsOfReportId(p, rid) ==
    {p.button_index_by_usage[k] :
        k \in {k \in DOMAIN p.button_index_by_usage : k[1] = rid}}

\* C36: with button caps in two different non-zero report ids A and B,
\* parsing a report of id B emits no ButtonReleased for a button whose cap
\* belongs to id A and does not forget that the button is pressed.
C36_OtherReportIdLeavesButtonsAlone ==
    \A k \in DOMAIN hidLog :
        \A A \in ButtonReportIds(hid) : \A B \in ButtonReportIds(hid) \ {A} :
            (hidLog[k].rid = B /\ hidLog[k].report.usages_status = "SUCCESS") =>
                \A b \in ButtonsOfReportId(hid, A) :
                    \A i \in DOMAIN hidLog[k].out :
                        hidLog[k].out[i] # ButtonReleased(b)

(***************************************************************************)
(* The range of an Axis2d output (specification SpecXf).                   *)
(***************************************************************************)
\* v lies in the clamp range [min(min, max), max(min, max)] of xf.
InClampRange(xf, v) == Min(xf.min, xf.max) <= v /\ v <= Max(xf.min, xf.max)

\* C37: each component of the vector an Axis2d rule writes lies within the
\* clamp range of its own transform, also with radial_deadzone and a
\* pre-rescale length above 1.
C37_Axis2dWithinClampRange ==
    (op = "axis2d") =>
        /\ InClampRange(arg.rule.xform_x, ret.vec2["stick"][1])
        /\ InClampRange(arg.rule.xform_y, ret.vec2["stick"][2])

\* The same without the radial rescale, and with it for vectors no longer
\* than 1: there the components stay in range.
Axis2dWithinClampRangeInsideUnitCircle ==
    (/\ op = "axis2d"
     /\ (arg.rule.radial_deadzone =>
             PipelineX * PipelineX + PipelineY * PipelineY <= AxisScale * AxisScale))
    => /\ InClampRange(arg.rule.xform_x, ret.vec2["stick"][1])
       /\ InClampRange(arg.rule.xform_y, ret.vec2["stick"][2])

(***************************************************************************)
(* A specification of raw-input injection through both entry points: the   *)
(* manager of SpecRaw, with keyboard and mouse packets (and packets that   *)
(* cannot be decoded) given to handle_wm_input and handle_raw_input_bytes, *)
(* polls and rescans in between.                                           *)
(***************************************************************************)
InjectPackets ==
    {KeyboardPacket(FALSE), ExtendedKeyPacket, NoPacket,
     MousePacketOf(3, 0, 0, 0, 1), MousePacketOf(0, -2, 120, -240, 0)}

NextInject ==
    \/ PollEventsLogged(MaxPoll)
    \/ HandleWmInputRaw(InjectPackets)
    \/ HandleRawInputBytes(InjectPackets)
    \/ Rescan(RawProbes)

SpecInject == InitRaw /\ [][NextInject]_vars

\* The map `new` is `old` with keys added that hold `neutral`.
NeutralKeysAdded(old, new, neutral) ==
    /\ DOMAIN old \subseteq DOMAIN new
    /\ \A k \in DOMAIN old : new[k] = old[k]
    /\ \A k \in DOMAIN new \ DOMAIN old : new[k] = neutral

\* The DeviceState `new` is `old` with neutral axis and button keys added.
StateExtendedNeutrally(old, new) ==
    /\ NeutralKeysAdded(old.axes, new.axes, 0)
    /\ NeutralKeysAdded(old.buttons, new.buttons, FALSE)
    /\ new.hats = old.hats

\* C38: handle_wm_input and handle_raw_input_bytes change the value of no
\* existing state key and remove no device and no key: the snapshot after
\* the call is the one before it with devices and keys added that hold
\* neutral values, and a packet that cannot be decoded changes nothing in
\* the manager, the injected queue included.
C38_InjectionOnlyAddsNeutralKeys ==
    (op \in {"handle_wm_input", "handle_raw_input_bytes"}) =>
        LET before == snapshot(pre).snap
            after  == snapshot(Self).snap
        IN  /\ DOMAIN before \subseteq DOMAIN after
            /\ \A id \in DOMAIN before :
                   StateExtendedNeutrally(before[id], after[id])
            /\ \A id \in DOMAIN after \ DOMAIN before :
                   StateExtendedNeutrally(DeviceStateDefault, after[id])
            /\ IsPrefix(pre.infos, infos)
            /\ devices = pre.devices
            /\ (arg = NoPacket) => (Self = pre)

\* A key of the keyboard is held (true in the state) when a packet for
\* another key of the same keyboard arrives: the held key stays true and the
\* new key is added as false.
C38_Witness ==
    /\ op \in {"handle_wm_input", "handle_raw_input_bytes"}
    /\ arg = ExtendedKeyPacket
    /\ "rawkbd:0x1a" \in DOMAIN pre.states
    /\ "key_001e" \in DOMAIN pre.states["rawkbd:0x1a"].buttons
    /\ pre.states["rawkbd:0x1a"].buttons["key_001e"]
    /\ "key_801d" \notin DOMAIN pre.states["rawkbd:0x1a"].buttons
    /\ states["rawkbd:0x1a"].buttons["key_001e"]
    /\ ~states["rawkbd:0x1a"].buttons["key_801d"]

\* An undecodable packet arrives while events are queued.
UndecodablePacketWithQueue ==
    /\ op \in {"handle_wm_input", "handle_raw_input_bytes"}
    /\ arg = NoPacket
    /\ injected # <<>>

(***************************************************************************)
(* The four poll functions side by side (specification Spec).              *)
(***************************************************************************)
\* The index of the device whose poll produced the j-th returned pair, for
\* the device inputs `polled` of the call.
RECURSIVE DeviceOfPosition(_, _, _)
DeviceOfPosition(polled, j, i) ==
    IF i >= Len(polled) \/ j <= Len(polled[i]) THEN i
    ELSE DeviceOfPosition(polled, j - Len(polled[i]), i + 1)

\* In a timed result the events of one device carry one timestamp, and the
\* timestamps do not decrease along the list.
TimestampsInOrder(out, polled) ==
    \A j, k \in DOMAIN out :
        /\ j <= k => out[j][2].at <= out[k][2].at
        /\ DeviceOfPosition(polled, j, 1) = DeviceOfPosition(polled, k, 1)
               => out[j][2].at = out[k][2].at

SlotsOfRange(lo, hi) == {hat_value_to_slot(raw, lo, hi, FALSE) : raw \in lo..hi}

\* C40: a slot-encoded hat with logical range [1, 8] can report all eight
\* directions: the raw values 1..8 decode to eight distinct slots covering
\* 0..7, and only raw values outside the range decode to neutral (-1).
C40_Hat1To8ReportsEightDirections ==
    (/\ op = "hat_value_to_slot"
     /\ arg.lo = 1 /\ arg.hi = 8
     /\ classify_hat(1, 57, arg.lo, arg.hi) = <<TRUE, arg.is_degrees>>)
    => /\ arg.raw \in 1..8 => ret[1].value \in 0..7
       /\ ret[1].value = -1 => arg.raw \notin 1..8
       /\ arg.raw \in 1..8 =>
              \A r \in (1..8) \ {arg.raw} :
                  hat_value_to_slot(r, 1, 8, FALSE) # ret[1].value
       /\ SlotsOfRange(1, 8) = 0..7

\* What does hold for the range [1, 8]: the raw values 1..7 decode to the
\* slots 1..7 unshifted, 8 and everything outside the range to neutral.
Hat1To8DecodesSevenSlots ==
    (/\ op = "hat_value_to_slot"
     /\ arg.lo = 1 /\ arg.hi = 8 /\ ~arg.is_degrees)
    => ret[1].value = (IF arg.raw \in 1..7 THEN arg.raw ELSE -1)
====
